---- MODULE Spec2Model ----
(***************************************************************************)
(* Scope hierarchy and revision-staleness protocol of @revisium/client:    *)
(* RevisionScope handles (src/src/revision-scope.ts) registered with a     *)
(* BranchScope owner (branch-scope.ts), the data operations they delegate  *)
(* to (src/src/data-operations.ts) and the server that answers the remote  *)
(* calls.  Scheduling is the JavaScript event loop: every action below is  *)
(* one synchronous segment between two suspension points.                  *)
(***************************************************************************)
EXTENDS Integers, FiniteSets

\* ---------------------------------------------------------------------------
\* Bounds
\* ---------------------------------------------------------------------------
MaxHandles == 3
MaxSiblings == 2
MaxCalls == 2
MaxCommits == 1
MaxDisposeCalls == 2

\* ---------------------------------------------------------------------------
\* Universe
\* ---------------------------------------------------------------------------
Owners == {"o1", "o2"}
Handles == 1..MaxHandles
Calls == 1..MaxCalls

\* every BranchScope of the model is bound to the same (organization, project,
\* branch) identity; OtherKey is the key of some other branch
BranchOf == [o \in Owners |-> "org/proj/master"]
OtherKey == "other/branch/key"

VARIABLES
  srvHead,         \* server: id of the branch's head revision
  srvDraft,        \* server: id of the branch's draft revision
  ownerHead,       \* BranchScope._headRevisionId
  ownerDraft,      \* BranchScope._draftRevisionId
  scopes,          \* BranchScope._scopes
  mode,            \* RevisionScope._revisionMode ("none": not constructed)
  isDraft,         \* RevisionScope._isDraft
  hOwner,          \* RevisionScope._owner
  revisionId,      \* RevisionScope._revisionId
  stale,           \* RevisionScope._stale
  disposed,        \* RevisionScope._disposed
  refreshPromise,  \* RevisionScope._refreshPromise (0: null, else the call that created it)
  calls,           \* the asynchronous call chains in progress
  unregisters,     \* history: how often owner.unregisterScope(h) was invoked
  disposeCalls,    \* history: how often dispose() was called on the handle
  owed,            \* history: the id the server had for the handle's mode when a
                   \* commit's broadcast reached the handle with no refresh in
                   \* flight (-1: no such broadcast since the last refresh)
  marked,          \* history: a broadcast called markStale() on the handle while
                   \* its refresh promise was stored (reset when it settles)
  cOrganizationId, \* RevisiumClient._organizationId (with _projectName, _branchName)
  cRevisionId,     \* RevisiumClient._revisionId (-1: null)
  cIsDraft,        \* RevisiumClient._isDraft
  organizationId,  \* BranchScope._branch.organizationId, handed to every handle
  cResolved        \* history: the organization id and the kind of revision
                   \* the request that produced RevisiumClient._revisionId
                   \* was sent for

hvars == <<mode, isDraft, hOwner, revisionId, stale, disposed, refreshPromise,
           disposeCalls>>
ovars == <<ownerHead, ownerDraft, scopes, unregisters>>
svars == <<srvHead, srvDraft>>
cvars == <<cOrganizationId, cRevisionId, cIsDraft, cResolved>>
vars == <<srvHead, srvDraft, ownerHead, ownerDraft, scopes, mode, isDraft,
          hOwner, revisionId, stale, disposed, refreshPromise, calls, owed,
          unregisters, disposeCalls, marked, cOrganizationId, cRevisionId,
          cIsDraft, organizationId, cResolved>>

\* ---------------------------------------------------------------------------
\* Call chains
\* ---------------------------------------------------------------------------
\* op   : the public method that was called
\* pc   : the await the chain is suspended at
\* res  : how the returned promise settled
\* rev  : the revision id the data operation was issued with
\* wait : the refresh promise awaited in getRevisionId (kept by a chain that
\*        this promise rejected)
\* req/val, req2/val2 : the outstanding remote requests and their answers
\* pre  : revisionId of the handle when commit was called
\* was  : _stale of the handle when commit / revertChanges was called
\* own  : the BranchScope whose revision(id) was called
\* org  : the organization id in the path of a request of RevisiumClient
Constructed == {h \in Handles : mode[h] # "none"}

IdleCall ==
  [op |-> "idle", h |-> 0, pc |-> "idle", res |-> "none", rev |-> 0, wait |-> 0,
   req |-> "none", val |-> 0, req2 |-> "none", val2 |-> 0, pre |-> 0,
   was |-> FALSE, own |-> "none", org |-> "none"]

Settled(op, h, res) ==
  [IdleCall EXCEPT !.op = op, !.h = h, !.pc = "done", !.res = res]

\* the state after BranchScope.create for the branch identities `orgs` gives
\* the BranchScope objects
Created(orgs) ==
  /\ organizationId = orgs
  /\ srvHead = 0
  /\ srvDraft = 1
  /\ ownerHead = [o \in Owners |-> 0]
  /\ ownerDraft = [o \in Owners |-> 1]
  /\ scopes = [o \in Owners |-> {}]
  /\ mode = [h \in Handles |-> "none"]
  /\ isDraft = [h \in Handles |-> FALSE]
  /\ hOwner = [h \in Handles |-> "o1"]
  /\ revisionId = [h \in Handles |-> 0]
  /\ stale = [h \in Handles |-> FALSE]
  /\ disposed = [h \in Handles |-> FALSE]
  /\ refreshPromise = [h \in Handles |-> 0]
  /\ calls = [c \in Calls |-> IdleCall]
  /\ owed = [h \in Handles |-> -1]
  /\ marked = [h \in Handles |-> FALSE]
  /\ cOrganizationId = "null"
  /\ cRevisionId = -1
  /\ cIsDraft = FALSE
  /\ cResolved = [org |-> "null", draft |-> FALSE]
  /\ unregisters = [h \in Handles |-> 0]
  /\ disposeCalls = [h \in Handles |-> 0]

Init == Created([o \in Owners |-> "org"])

\* ---------------------------------------------------------------------------
\* BranchScope: factories
\* ---------------------------------------------------------------------------
\* new RevisionScope(init) followed by this._scopes.add(scope)
NewScope(o, h, id, draft, m) ==
  /\ mode[h] = "none"
  /\ \A k \in Handles : k < h => mode[k] # "none"
  /\ mode' = [mode EXCEPT ![h] = m]
  /\ isDraft' = [isDraft EXCEPT ![h] = draft]
  /\ hOwner' = [hOwner EXCEPT ![h] = o]
  /\ revisionId' = [revisionId EXCEPT ![h] = id]
  /\ scopes' = [scopes EXCEPT ![o] = @ \cup {h}]
  /\ UNCHANGED <<stale, disposed, disposeCalls, unregisters, refreshPromise,
                 ownerHead, ownerDraft, srvHead, srvDraft, calls, owed, marked, cvars, organizationId>>

Draft(o) == \E h \in Handles : NewScope(o, h, ownerDraft[o], TRUE, "draft")

\* faulty variant of Head: the head handle is constructed with isDraft: true
HeadAsDraft(o) == \E h \in Handles : NewScope(o, h, ownerHead[o], TRUE, "head")

Head(o) == \E h \in Handles : NewScope(o, h, ownerHead[o], FALSE, "head")

\* validateRevisionId: the server knows the revisions 0..srvDraft
RevisionExists(id) == id \in 0..srvDraft

Revision(o, id) ==
  /\ RevisionExists(id)
  /\ \E h \in Handles : NewScope(o, h, id, FALSE, "explicit")

\* revision(revisionId) is called: ops.validateRevisionId sends sdk.revision
StartRevision(c, o, id) ==
  /\ calls[c].pc = "idle"
  /\ \A k \in Calls : k < c => calls[k].pc # "idle"
  /\ calls' = [calls EXCEPT ![c] =
       [IdleCall EXCEPT !.op = "revision", !.pc = "validate", !.req = "sent",
                        !.rev = id, !.own = o]]
  /\ UNCHANGED <<svars, ovars, hvars, owed, marked, cvars, organizationId>>

\* faulty variant of ValidateThrows: the answer is not unwrapped
NeverInvalid(ok) == FALSE

\* unwrap(result) of validateRevisionId throws on an error answer
ValidateThrows(ok) == ~ok

\* the server answers sdk.revision (an error for an id it does not know) and
\* `await ops.validateRevisionId(...)` resumes: it throws, or the scope is
\* constructed, added to _scopes and returned
ValidateSettles(c, ok) ==
  /\ calls[c].pc = "validate"
  /\ ok => RevisionExists(calls[c].rev)
  /\ IF ValidateThrows(ok)
     THEN /\ calls' = [calls EXCEPT ![c] =
               [Settled("revision", 0, "Transport") EXCEPT
                  !.rev = calls[c].rev, !.own = calls[c].own]]
          /\ UNCHANGED <<mode, isDraft, hOwner, revisionId, scopes>>
     ELSE \E h \in Handles :
            /\ mode[h] = "none"
            /\ \A k \in Handles : k < h => mode[k] # "none"
            /\ mode' = [mode EXCEPT ![h] = "explicit"]
            /\ isDraft' = [isDraft EXCEPT ![h] = FALSE]
            /\ hOwner' = [hOwner EXCEPT ![h] = calls[c].own]
            /\ revisionId' = [revisionId EXCEPT ![h] = calls[c].rev]
            /\ scopes' = [scopes EXCEPT ![calls[c].own] = @ \cup {h}]
            /\ calls' = [calls EXCEPT ![c] =
                 [Settled("revision", h, "ok") EXCEPT
                    !.rev = calls[c].rev, !.own = calls[c].own]]
  /\ UNCHANGED <<svars, ownerHead, ownerDraft, unregisters, stale, disposed,
                 disposeCalls, refreshPromise, owed, marked, cvars, organizationId>>

\* ---------------------------------------------------------------------------
\* RevisionScope: synchronous methods
\* ---------------------------------------------------------------------------
\* faulty variant of AfterMarkStale: markStale() without the explicit-mode guard
AlwaysStale(h, s) == TRUE

\* the value of _stale after markStale() on a handle whose _stale was s
AfterMarkStale(h, s) == IF mode[h] = "explicit" THEN s ELSE TRUE

MarkStale(h) ==
  /\ mode[h] # "none"
  /\ stale' = [stale EXCEPT ![h] = AfterMarkStale(h, stale[h])]
  /\ UNCHANGED <<svars, ovars, mode, isDraft, hOwner, revisionId, disposed, disposeCalls,
                 refreshPromise, calls, owed, marked, cvars, organizationId>>

\* what dispose() reads and writes: _disposed of the handles, _scopes of the
\* owners and the count of unregisterScope invocations
DisposeState ==
  [disposed |-> disposed, scopes |-> scopes, unregisters |-> unregisters]

\* faulty variant of AfterDispose: dispose() without unregisterScope
DisposeKeepsRegistered(h, st) ==
  [st EXCEPT !.disposed = [st.disposed EXCEPT ![h] = TRUE]]

\* faulty variant of AfterDispose: dispose() empties the owner's registry
DisposeClearsRegistry(h, st) ==
  IF st.disposed[h] THEN st
  ELSE [disposed |-> [st.disposed EXCEPT ![h] = TRUE],
        scopes |-> [st.scopes EXCEPT ![hOwner[h]] = {}],
        unregisters |-> [st.unregisters EXCEPT ![h] = @ + 1]]

\* faulty variant of AfterDispose: dispose() without the early return
DisposeUnguarded(h, st) ==
  [disposed |-> [st.disposed EXCEPT ![h] = TRUE],
   scopes |-> [st.scopes EXCEPT ![hOwner[h]] = @ \ {h}],
   unregisters |-> [st.unregisters EXCEPT ![h] = @ + 1]]

\* dispose() on handle h: returns early when _disposed is set, else sets it
\* and calls this._owner.unregisterScope(this)
AfterDispose(h, st) ==
  IF st.disposed[h] THEN st
  ELSE [disposed |-> [st.disposed EXCEPT ![h] = TRUE],
        scopes |-> [st.scopes EXCEPT ![hOwner[h]] = @ \ {h}],
        unregisters |-> [st.unregisters EXCEPT ![h] = @ + 1]]

Dispose(h) ==
  /\ mode[h] # "none"
  /\ disposeCalls[h] < MaxDisposeCalls
  /\ disposeCalls' = [disposeCalls EXCEPT ![h] = @ + 1]
  /\ LET after == AfterDispose(h, DisposeState)
     IN /\ disposed' = after.disposed
        /\ scopes' = after.scopes
        /\ unregisters' = after.unregisters
  /\ UNCHANGED <<svars, ownerHead, ownerDraft, mode, isDraft, hOwner,
                 revisionId, stale, refreshPromise, calls, owed, marked, cvars, organizationId>>

\* ---------------------------------------------------------------------------
\* BranchScope: ScopeOwner implementation
\* ---------------------------------------------------------------------------
\* faulty variant of NotifyTargets: every handle ever created is notified
NotifyAllHandles(o, branchKey, excludeScope) ==
  IF branchKey # BranchOf[o] THEN {} ELSE Constructed \ {excludeScope}

\* faulty variant of NotifyTargets: the branch key is not compared
NotifyAnyKey(o, branchKey, excludeScope) == scopes[o] \ {excludeScope}

\* faulty variant of NotifyTargets: the committing scope is not excluded
NotifyEveryScope(o, branchKey, excludeScope) ==
  IF branchKey # BranchOf[o] THEN {} ELSE scopes[o]

\* faulty variant of NotifyTargets: one registry shared by every BranchScope
NotifyAllOwners(o, branchKey, excludeScope) ==
  IF branchKey # BranchOf[o] THEN {}
  ELSE UNION {scopes[x] : x \in Owners} \ {excludeScope}

\* the scopes notifyBranchChanged(branchKey, excludeScope) calls markStale() on
NotifyTargets(o, branchKey, excludeScope) ==
  IF branchKey # BranchOf[o] THEN {} ELSE scopes[o] \ {excludeScope}

\* faulty variant of Broadcast: the owner notifies nobody
NoBroadcast(st, o, branchKey, excludeScope) == st

\* _stale of every handle after the broadcast, given the flags before it
Broadcast(st, o, branchKey, excludeScope) ==
  [h \in Handles |->
     IF h \in NotifyTargets(o, branchKey, excludeScope)
     THEN AfterMarkStale(h, st[h])
     ELSE st[h]]

\* history: the handles a broadcast marks while their refresh promise is stored
MarkedInFlight(o, branchKey, excludeScope) ==
  [h \in Handles |->
     \/ marked[h]
     \/ /\ h \in NotifyTargets(o, branchKey, excludeScope)
        /\ mode[h] # "explicit"
        /\ refreshPromise[h] # 0]

NotifyBranchChanged(o, branchKey, excludeScope) ==
  /\ stale' = Broadcast(stale, o, branchKey, excludeScope)
  /\ marked' = MarkedInFlight(o, branchKey, excludeScope)
  /\ UNCHANGED <<cvars, organizationId>>
  /\ UNCHANGED <<svars, ovars, mode, isDraft, hOwner, revisionId, disposed, disposeCalls,
                 refreshPromise, calls, owed>>

\* ---------------------------------------------------------------------------
\* RevisionScope.getRevisionId and the data operations built on it
\* ---------------------------------------------------------------------------
\* faulty variant of StartsFetch: `=` in place of `??=`
AlwaysFetch(h) == TRUE

\* `this._refreshPromise ??= ...` starts a fetch only when no promise is stored
StartsFetch(h) == refreshPromise[h] = 0

\* faulty variant of FetchKind: the head is fetched whatever the mode
AlwaysHead(h) == "head"

\* faulty variant of FetchKind: the draft is fetched whatever the mode
AlwaysDraft(h) == "draft"

\* fetchRevisionId: which revision of the branch is fetched
FetchKind(h) == IF mode[h] = "draft" THEN "draft" ELSE "head"

\* faulty variant of AssertNotDisposedThrows: the check is missing
NeverThrowsDisposed(h) == FALSE

\* assertNotDisposed() throws 'Scope has been disposed.'
AssertNotDisposedThrows(h) == disposed[h]

\* assertContext(ctx) throws 'Context not set. Call setContext() first.'
AssertContextThrows(h) == organizationId[hOwner[h]] = ""

\* faulty variant of AssertDraftThrows: the check is missing
NeverThrowsNotDraft(h) == FALSE

\* assertDraft(ctx) throws 'Mutations are only allowed in draft revision.'
AssertDraftThrows(h) == ~isDraft[h]

\* faulty variant of NeedsRefresh: the id is fetched on every call
AlwaysRefreshes(h) == TRUE

\* `if (this._stale)` of getRevisionId
NeedsRefresh(h) == stale[h]

\* getRevisionId() called by call chain c running method op on handle h
GetRevisionId(c, h, op) ==
  IF AssertNotDisposedThrows(h)
  THEN /\ calls' = [calls EXCEPT ![c] = Settled(op, h, "Disposed")]
       /\ UNCHANGED refreshPromise
  ELSE IF NeedsRefresh(h)
  THEN IF StartsFetch(h)
       THEN /\ refreshPromise' = [refreshPromise EXCEPT ![h] = c]
            /\ calls' = [calls EXCEPT ![c] =
                 [IdleCall EXCEPT !.op = op, !.h = h, !.pc = "awaitRefresh",
                                  !.wait = c, !.req = "sent"]]
       ELSE /\ calls' = [calls EXCEPT ![c] =
                 [IdleCall EXCEPT !.op = op, !.h = h, !.pc = "awaitRefresh",
                                  !.wait = refreshPromise[h]]]
            /\ UNCHANGED refreshPromise
  ELSE /\ calls' = [calls EXCEPT ![c] =
            [IdleCall EXCEPT !.op = op, !.h = h, !.pc = "remote",
                             !.rev = revisionId[h]]]
       /\ UNCHANGED refreshPromise

CanStart(c, h) ==
  /\ calls[c].pc = "idle"
  /\ \A k \in Calls : k < c => calls[k].pc # "idle"
  /\ mode[h] # "none"

\* getTables, getRows, getChanges, ...: ops.getX(this.context, ...)
StartRead(c, h) ==
  /\ CanStart(c, h)
  /\ GetRevisionId(c, h, "read")
  /\ UNCHANGED <<svars, ovars, mode, isDraft, hOwner, revisionId, stale, disposed, disposeCalls,
                 owed, marked, cvars, organizationId>>

\* getMigrations: assertContext(ctx), then getRevisionId
StartGetMigrations(c, h) ==
  /\ CanStart(c, h)
  /\ IF AssertContextThrows(h)
     THEN /\ calls' = [calls EXCEPT ![c] = Settled("migrations", h, "ContextNotSet")]
          /\ UNCHANGED refreshPromise
     ELSE GetRevisionId(c, h, "migrations")
  /\ UNCHANGED <<svars, ovars, mode, isDraft, hOwner, revisionId, stale, disposed, disposeCalls,
                 owed, marked, cvars, organizationId>>

\* createTable, createRow, updateRow, ...: assertDraft(ctx), which begins with
\* assertContext(ctx), then getRevisionId
StartMutate(c, h) ==
  /\ CanStart(c, h)
  /\ IF AssertContextThrows(h)
     THEN /\ calls' = [calls EXCEPT ![c] = Settled("mutate", h, "ContextNotSet")]
          /\ UNCHANGED refreshPromise
     ELSE IF AssertDraftThrows(h)
     THEN /\ calls' = [calls EXCEPT ![c] = Settled("mutate", h, "NotDraft")]
          /\ UNCHANGED refreshPromise
     ELSE GetRevisionId(c, h, "mutate")
  /\ UNCHANGED <<svars, ovars, mode, isDraft, hOwner, revisionId, stale, disposed, disposeCalls,
                 owed, marked, cvars, organizationId>>

\* applyMigrations: assertNotDisposed, then ops.applyMigrations(ctx, ...)
StartMigrate(c, h) ==
  /\ CanStart(c, h)
  /\ IF AssertNotDisposedThrows(h)
     THEN /\ calls' = [calls EXCEPT ![c] = Settled("migrate", h, "Disposed")]
          /\ UNCHANGED refreshPromise
     ELSE IF AssertContextThrows(h)
     THEN /\ calls' = [calls EXCEPT ![c] = Settled("migrate", h, "ContextNotSet")]
          /\ UNCHANGED refreshPromise
     ELSE IF AssertDraftThrows(h)
     THEN /\ calls' = [calls EXCEPT ![c] = Settled("migrate", h, "NotDraft")]
          /\ UNCHANGED refreshPromise
     ELSE GetRevisionId(c, h, "migrate")
  /\ UNCHANGED <<svars, ovars, mode, isDraft, hOwner, revisionId, stale, disposed, disposeCalls,
                 owed, marked, cvars, organizationId>>

\* commits whose createRevision request the server has not answered yet
PendingCommits ==
  Cardinality({c \in Calls : calls[c].op = "commit" /\ calls[c].pc = "write"})

\* commit / revertChanges: assertNotDisposed, assertDraft, then the remote call
StartWrite(c, h, op) ==
  /\ CanStart(c, h)
  /\ op = "commit" => srvDraft - 1 + PendingCommits < MaxCommits
  /\ IF AssertNotDisposedThrows(h)
     THEN calls' = [calls EXCEPT ![c] = Settled(op, h, "Disposed")]
     ELSE IF AssertContextThrows(h)
     THEN calls' = [calls EXCEPT ![c] = Settled(op, h, "ContextNotSet")]
     ELSE IF AssertDraftThrows(h)
     THEN calls' = [calls EXCEPT ![c] = Settled(op, h, "NotDraft")]
     ELSE calls' = [calls EXCEPT ![c] =
            [IdleCall EXCEPT !.op = op, !.h = h, !.pc = "write", !.req = "sent",
                             !.pre = revisionId[h], !.was = stale[h]]]
  /\ UNCHANGED <<svars, ovars, hvars, owed, marked, cvars, organizationId>>

StartCommit(c, h) == StartWrite(c, h, "commit")

StartRevert(c, h) == StartWrite(c, h, "revert")

\* deleteEndpoint / getEndpointRelatives: assertNotDisposed, then the remote
\* call by endpoint id (no revision id is resolved)
StartEndpoint(c, h) ==
  /\ CanStart(c, h)
  /\ IF AssertNotDisposedThrows(h)
     THEN calls' = [calls EXCEPT ![c] = Settled("endpoint", h, "Disposed")]
     ELSE calls' = [calls EXCEPT ![c] =
            [IdleCall EXCEPT !.op = "endpoint", !.h = h, !.pc = "remote"]]
  /\ UNCHANGED <<svars, ovars, hvars, owed, marked, cvars, organizationId>>

\* faulty variant of SkipsRefresh: refresh() without the explicit-mode guard
NeverSkips(h) == FALSE

\* refresh() returns at once for an explicit revision
SkipsRefresh(h) == mode[h] = "explicit"

\* refresh(): assertNotDisposed, no-op for explicit, else fetchRevisionId()
StartRefresh(c, h) ==
  /\ CanStart(c, h)
  /\ IF AssertNotDisposedThrows(h)
     THEN calls' = [calls EXCEPT ![c] = Settled("refresh", h, "Disposed")]
     ELSE IF SkipsRefresh(h)
     THEN calls' = [calls EXCEPT ![c] = Settled("refresh", h, "ok")]
     ELSE calls' = [calls EXCEPT ![c] =
            [IdleCall EXCEPT !.op = "refresh", !.h = h, !.pc = "refreshing",
                             !.req = "sent"]]
  /\ UNCHANGED <<svars, ovars, hvars, owed, marked, cvars, organizationId>>

\* ---------------------------------------------------------------------------
\* Remote calls: the server's answer and unwrap()
\* ---------------------------------------------------------------------------
\* unwrap(result) throws when the answer carries an error: the awaiting chain
\* rejects without touching any state
Rejected(c) == Settled(calls[c].op, calls[c].h, "Transport")

\* the id sdk.draftRevision / sdk.headRevision answers with
ServerId(kind) == IF kind = "draft" THEN srvDraft ELSE srvHead

\* the fetch started by getRevisionId is answered (the promise settles later)
ServeRefresh(p, ok) ==
  /\ calls[p].pc = "awaitRefresh"
  /\ calls[p].wait = p
  /\ calls[p].req = "sent"
  /\ calls' = [calls EXCEPT
       ![p].req = IF ok THEN "ok" ELSE "fail",
       ![p].val = IF ok THEN ServerId(FetchKind(calls[p].h)) ELSE 0]
  /\ UNCHANGED <<svars, ovars, hvars, owed, marked, cvars, organizationId>>

\* the fetch of refresh() or the fetchDraftRevisionId of commit is answered
ServeFetch(c, ok) ==
  /\ calls[c].pc \in {"refreshing", "fetchDraft"}
  /\ calls[c].req = "sent"
  /\ LET kind == IF calls[c].pc = "fetchDraft" THEN "draft"
                 ELSE FetchKind(calls[c].h)
     IN calls' = [calls EXCEPT ![c] =
          IF ok THEN [calls[c] EXCEPT !.req = "ok", !.val = ServerId(kind)]
          ELSE Rejected(c)]
  /\ UNCHANGED <<svars, ovars, hvars, owed, marked, cvars, organizationId>>

\* the two requests of refreshRevisionIds are answered independently;
\* Promise.all rejects with the first error
ServeOwnerHead(c, ok) ==
  /\ calls[c].pc = "ownerRefresh"
  /\ calls[c].req = "sent"
  /\ calls' = [calls EXCEPT ![c] =
       IF ok THEN [calls[c] EXCEPT !.req = "ok", !.val = srvHead]
       ELSE Rejected(c)]
  /\ UNCHANGED <<svars, ovars, hvars, owed, marked, cvars, organizationId>>

ServeOwnerDraft(c, ok) ==
  /\ calls[c].pc = "ownerRefresh"
  /\ calls[c].req2 = "sent"
  /\ calls' = [calls EXCEPT ![c] =
       IF ok THEN [calls[c] EXCEPT !.req2 = "ok", !.val2 = srvDraft]
       ELSE Rejected(c)]
  /\ UNCHANGED <<svars, ovars, hvars, owed, marked, cvars, organizationId>>

\* ---------------------------------------------------------------------------
\* Continuations
\* ---------------------------------------------------------------------------
\* faulty variant of Awaiters: only the chain that started the fetch resumes
OnlyCreatorResumes(p) ==
  {c \in Calls : c = p /\ calls[c].pc = "awaitRefresh" /\ calls[c].wait = p}

\* the call chains awaiting refresh promise p
Awaiters(p) == {c \in Calls : calls[c].pc = "awaitRefresh" /\ calls[c].wait = p}

\* after `await ctx.getRevisionId()` the data operation issues its request
Resumed(c, id) ==
  [IdleCall EXCEPT !.op = calls[c].op, !.h = calls[c].h, !.pc = "remote",
                   !.rev = id]

\* faulty variant of AfterRejected: the rejected promise stays stored
KeepsPromise(h) == refreshPromise[h]

\* _refreshPromise after the onRejected handler of getRevisionId
AfterRejected(h) == 0

\* faulty variant of AfterFulfilled: the resolved promise stays stored
FulfilledKeepsPromise(h) == refreshPromise[h]

\* _refreshPromise after the onFulfilled handler of getRevisionId
AfterFulfilled(h) == 0

\* the .then(onFulfilled, onRejected) of getRevisionId runs, then its awaiters
RefreshSettles(p) ==
  /\ calls[p].pc = "awaitRefresh"
  /\ calls[p].wait = p
  /\ calls[p].req \in {"ok", "fail"}
  /\ LET h == calls[p].h
         id == calls[p].val
     IN IF calls[p].req = "ok"
        THEN /\ revisionId' = [revisionId EXCEPT ![h] = id]
             /\ stale' = [stale EXCEPT ![h] = FALSE]
             /\ refreshPromise' = [refreshPromise EXCEPT ![h] = AfterFulfilled(h)]
             /\ calls' = [c \in Calls |->
                  IF c \in Awaiters(p) THEN Resumed(c, id) ELSE calls[c]]
             /\ owed' = [owed EXCEPT ![h] = -1]
        ELSE /\ refreshPromise' = [refreshPromise EXCEPT ![h] = AfterRejected(h)]
             /\ calls' = [c \in Calls |->
                  IF c \in Awaiters(p) THEN [Rejected(c) EXCEPT !.wait = p]
                  ELSE calls[c]]
             /\ UNCHANGED <<revisionId, stale, owed>>
  /\ marked' = [marked EXCEPT ![calls[p].h] = FALSE]
  /\ UNCHANGED <<svars, ovars, mode, isDraft, hOwner, disposed, disposeCalls, cvars, organizationId>>

\* owner.refreshRevisionIds() is called: Promise.all of two fetches
OwnerRefreshing(c) ==
  [IdleCall EXCEPT !.op = calls[c].op, !.h = calls[c].h, !.pc = "ownerRefresh",
                   !.req = "sent", !.req2 = "sent", !.pre = calls[c].pre,
                   !.was = calls[c].was]

\* faulty variant of RefreshesOwner: reads also re-fetch and broadcast
ReadsRefreshOwner(op) == op \in {"migrate", "read"}

\* faulty variant of RefreshesOwner: table/row mutations also re-fetch and
\* broadcast
MutationsRefreshOwner(op) == op \in {"migrate", "mutate"}

\* the data operations that RevisionScope follows with refreshRevisionIds,
\* the draft fetch and the broadcast: applyMigrations(WithStatus) only; the
\* reads and the table/row mutations return the answer
RefreshesOwner(op) == op = "migrate"

\* the request of a data operation is answered and the chain resumes
RemoteSettles(c, ok) ==
  /\ calls[c].pc = "remote"
  /\ calls' = [calls EXCEPT ![c] =
       IF ~ok THEN Rejected(c)
       ELSE IF RefreshesOwner(calls[c].op) THEN OwnerRefreshing(c)
       ELSE [Settled(calls[c].op, calls[c].h, "ok") EXCEPT !.rev = calls[c].rev]]
  /\ UNCHANGED <<svars, ovars, hvars, owed, marked, cvars, organizationId>>

\* faulty variant of StaleOnWriteSettled: the siblings are notified as soon as
\* the remote operation resolved
EarlyBroadcast(c) ==
  Broadcast(stale, hOwner[calls[c].h], BranchOf[hOwner[calls[c].h]], calls[c].h)

\* the stale flags when `await ops.commit(...)` resumes: nothing is notified
\* before the owner's ids and the handle's draft id have been re-fetched
StaleOnWriteSettled(c) == stale

\* sdk.createRevision turns the draft into the head and opens a new draft,
\* sdk.revertChanges keeps the revision ids; then
\* `await ops.commit(...)` / `await ops.revertChanges(...)` resumes
WriteSettles(c, ok) ==
  /\ calls[c].pc = "write"
  /\ calls' = [calls EXCEPT ![c] = IF ok THEN OwnerRefreshing(c) ELSE Rejected(c)]
  /\ IF ok /\ calls[c].op = "commit"
     THEN /\ srvHead' = srvDraft
          /\ srvDraft' = srvDraft + 1
     ELSE UNCHANGED svars
  /\ stale' = StaleOnWriteSettled(c)
  /\ UNCHANGED <<ovars, mode, isDraft, hOwner, revisionId, disposed,
                 refreshPromise, disposeCalls, owed, marked, cvars, organizationId>>

\* `await this._owner.refreshRevisionIds()` resumes
OwnerRefreshSettles(c) ==
  /\ calls[c].pc = "ownerRefresh"
  /\ calls[c].req = "ok"
  /\ calls[c].req2 = "ok"
  /\ LET o == hOwner[calls[c].h]
     IN /\ ownerHead' = [ownerHead EXCEPT ![o] = calls[c].val]
        /\ ownerDraft' = [ownerDraft EXCEPT ![o] = calls[c].val2]
  /\ calls' = [calls EXCEPT ![c] =
       [IdleCall EXCEPT !.op = calls[c].op, !.h = calls[c].h,
                        !.pc = "fetchDraft", !.req = "sent",
                        !.pre = calls[c].pre, !.was = calls[c].was]]
  /\ UNCHANGED <<svars, scopes, unregisters, hvars, owed, marked, cvars, organizationId>>

\* faulty variant of AfterOwnWrite: the handle does not clear its flag
KeepsStale(st, h) == st

\* `this._stale = false` after the draft id was stored
AfterOwnWrite(st, h) == [st EXCEPT ![h] = FALSE]

\* faulty variant of StoredId: the id the handle had when commit was called
PreCommitId(c) == calls[c].pre

\* the id `this._revisionId = await ops.fetchDraftRevisionId(...)` stores
StoredId(c) == calls[c].val

\* `this._revisionId = await ops.fetchDraftRevisionId(...)` resumes, then
\* `this._stale = false` and `this._owner.notifyBranchChanged(key, this)`
FetchDraftSettles(c) ==
  /\ calls[c].pc = "fetchDraft"
  /\ calls[c].req = "ok"
  /\ LET h == calls[c].h
         o == hOwner[h]
     IN /\ revisionId' = [revisionId EXCEPT ![h] = StoredId(c)]
        /\ stale' = Broadcast(AfterOwnWrite(stale, h), o, BranchOf[o], h)
        /\ calls' = [calls EXCEPT ![c] =
             [Settled(calls[c].op, h, "ok") EXCEPT !.val = calls[c].val,
                                                   !.pre = calls[c].pre,
                                                   !.was = calls[c].was]]
        /\ owed' = [b \in Handles |->
             IF b = h THEN -1
             ELSE IF b \in NotifyTargets(o, BranchOf[o], h) /\ mode[b] # "explicit"
                     /\ refreshPromise[b] = 0
             THEN (IF isDraft[b] THEN srvDraft ELSE srvHead)
             ELSE owed[b]]
        /\ marked' = MarkedInFlight(o, BranchOf[o], h)
  /\ UNCHANGED <<svars, ovars, mode, isDraft, hOwner, disposed, disposeCalls, refreshPromise,
                 cvars, organizationId>>

\* `this._revisionId = await this.fetchRevisionId()` of refresh() resumes
RefreshReturns(c) ==
  /\ calls[c].pc = "refreshing"
  /\ calls[c].req = "ok"
  /\ LET h == calls[c].h
     IN /\ revisionId' = [revisionId EXCEPT ![h] = calls[c].val]
        /\ stale' = [stale EXCEPT ![h] = FALSE]
        /\ calls' = [calls EXCEPT ![c] = Settled("refresh", h, "ok")]
        /\ owed' = [owed EXCEPT ![h] = -1]
  /\ UNCHANGED <<svars, ovars, mode, isDraft, hOwner, disposed, disposeCalls, refreshPromise,
                 marked, cvars, organizationId>>

\* ---------------------------------------------------------------------------
\* RevisiumClient (src/src/revisium-client.ts): one context, no scopes
\* ---------------------------------------------------------------------------
\* the organization ids and explicit revision ids passed to setContext()
OrganizationInputs == {"org", ""}
RevisionInputs == {0, 1, 7}

\* a chain of the client: position `pc` is the await it is suspended at
ClientCall(op, pc) ==
  [IdleCall EXCEPT !.op = op, !.pc = pc, !.req = "sent"]

ClientCanStart(c) ==
  /\ calls[c].pc = "idle"
  /\ \A k \in Calls : k < c => calls[k].pc # "idle"

\* setContext({ organizationId, projectName, branchName, revision }): the
\* three identity fields are stored before the revision is requested
SetContext(c, org, revision, id) ==
  /\ ClientCanStart(c)
  /\ cOrganizationId' = org
  /\ calls' = [calls EXCEPT ![c] =
       [ClientCall("setContext",
                   IF revision = "draft" THEN "contextDraft"
                   ELSE IF revision = "head" THEN "contextHead"
                   ELSE "contextRevision")
          EXCEPT !.rev = IF revision \in {"draft", "head"} THEN 0 ELSE id,
                 !.org = org]]
  /\ UNCHANGED <<svars, ovars, hvars, owed, marked, cRevisionId, cIsDraft,
                 organizationId, cResolved>>

\* faulty variant of ClientAssertContextThrows: the check is missing
ClientNeverThrowsContext == FALSE

\* RevisiumClient.assertContext throws 'Context not set. Call setContext() first.'
ClientAssertContextThrows == cRevisionId = -1

\* RevisiumClient.assertDraft: assertContext, then the draft check
ClientAssertDraft(op) ==
  IF ClientAssertContextThrows THEN Settled(op, 0, "ContextNotSet")
  ELSE IF ~cIsDraft THEN Settled(op, 0, "NotDraft")
  ELSE [ClientCall(op, IF op = "cMutate" THEN "cRemote" ELSE "cWrite")
          EXCEPT !.rev = cRevisionId]

\* getTables, getTable, getTableSchema, getRows, getRow, getChanges
ClientRead(c) ==
  /\ ClientCanStart(c)
  /\ calls' = [calls EXCEPT ![c] =
       IF ClientAssertContextThrows THEN Settled("cRead", 0, "ContextNotSet")
       ELSE [ClientCall("cRead", "cRemote") EXCEPT !.rev = cRevisionId]]
  /\ UNCHANGED <<svars, ovars, hvars, owed, marked, cvars, organizationId>>

\* createTable ... renameRow: assertDraft, then the request
ClientMutate(c) ==
  /\ ClientCanStart(c)
  /\ calls' = [calls EXCEPT ![c] = ClientAssertDraft("cMutate")]
  /\ UNCHANGED <<svars, ovars, hvars, owed, marked, cvars, organizationId>>

\* createRevision requests of the client the server has not answered yet
ClientPendingCommits ==
  Cardinality({c \in Calls : calls[c].op = "cCommit" /\ calls[c].pc = "cWrite"
                                /\ calls[c].req = "sent"})

\* commit: assertDraft, then sdk.createRevision
ClientCommit(c) ==
  /\ ClientCanStart(c)
  /\ srvDraft - 1 + ClientPendingCommits < MaxCommits
  /\ calls' = [calls EXCEPT ![c] = ClientAssertDraft("cCommit")]
  /\ UNCHANGED <<svars, ovars, hvars, owed, marked, cvars, organizationId>>

\* revertChanges: assertDraft, then sdk.revertChanges
ClientRevert(c) ==
  /\ ClientCanStart(c)
  /\ calls' = [calls EXCEPT ![c] = ClientAssertDraft("cRevert")]
  /\ UNCHANGED <<svars, ovars, hvars, owed, marked, cvars, organizationId>>

ClientPcs ==
  {"contextDraft", "contextHead", "contextRevision", "cRemote", "cWrite",
   "cRefreshDraft"}

\* the server answers a request of the client with { data } or { error };
\* sdk.revision answers an error for an id it does not know
ClientServe(c, ok) ==
  /\ calls[c].pc \in ClientPcs
  /\ calls[c].req = "sent"
  /\ (ok /\ calls[c].pc = "contextRevision") => RevisionExists(calls[c].rev)
  /\ calls' = [calls EXCEPT
       ![c].req = IF ok THEN "ok" ELSE "fail",
       ![c].val = IF ~ok THEN 0
                  ELSE IF calls[c].pc \in {"contextDraft", "cRefreshDraft"}
                  THEN srvDraft
                  ELSE IF calls[c].pc = "contextHead" THEN srvHead
                  ELSE 0]
  /\ IF ok /\ calls[c].op = "cCommit" /\ calls[c].pc = "cWrite"
     THEN /\ srvHead' = srvDraft
          /\ srvDraft' = srvDraft + 1
     ELSE UNCHANGED svars
  /\ UNCHANGED <<ovars, hvars, owed, marked, cvars, organizationId>>

Answered(c) == calls[c].req \in {"ok", "fail"}

\* setContext resumes: unwrap(result), then _revisionId and _isDraft
ContextSettles(c) ==
  /\ calls[c].pc \in {"contextDraft", "contextHead", "contextRevision"}
  /\ Answered(c)
  /\ IF calls[c].req = "fail"
     THEN /\ calls' = [calls EXCEPT ![c] = Rejected(c)]
          /\ UNCHANGED <<cRevisionId, cIsDraft, cResolved>>
     ELSE /\ cRevisionId' = IF calls[c].pc = "contextRevision" THEN calls[c].rev
                            ELSE calls[c].val
          /\ cIsDraft' = (calls[c].pc = "contextDraft")
          /\ cResolved' = [org |-> calls[c].org,
                           draft |-> calls[c].pc = "contextDraft"]
          /\ calls' = [calls EXCEPT ![c] = Settled("setContext", 0, "ok")]
  /\ UNCHANGED <<svars, ovars, hvars, owed, marked, cOrganizationId,
                 organizationId>>

\* a read or a table/row mutation resumes: return this.unwrap(result)
ClientRemoteSettles(c) ==
  /\ calls[c].pc = "cRemote"
  /\ Answered(c)
  /\ calls' = [calls EXCEPT ![c] =
       IF calls[c].req = "fail" THEN Rejected(c)
       ELSE [Settled(calls[c].op, 0, "ok") EXCEPT !.rev = calls[c].rev]]
  /\ UNCHANGED <<svars, ovars, hvars, owed, marked, cvars, organizationId>>

\* `await sdk.createRevision(...)` resumes with unwrap(result),
\* `await sdk.revertChanges(...)` resumes without looking at the answer;
\* req2 keeps the answer of the remote operation, then refreshDraftRevisionId()
ClientWriteSettles(c) ==
  /\ calls[c].pc = "cWrite"
  /\ Answered(c)
  /\ calls' = [calls EXCEPT ![c] =
       IF calls[c].req = "fail" /\ calls[c].op = "cCommit"
       THEN [Rejected(c) EXCEPT !.req2 = "fail"]
       ELSE [ClientCall(calls[c].op, "cRefreshDraft") EXCEPT
               !.req2 = calls[c].req, !.org = cOrganizationId]]
  /\ UNCHANGED <<svars, ovars, hvars, owed, marked, cvars, organizationId>>

\* refreshDraftRevisionId resumes: unwrap(result), then _revisionId = data.id
RefreshDraftSettles(c) ==
  /\ calls[c].pc = "cRefreshDraft"
  /\ Answered(c)
  /\ IF calls[c].req = "fail"
     THEN /\ calls' = [calls EXCEPT ![c] =
               [Rejected(c) EXCEPT !.req2 = calls[c].req2]]
          /\ UNCHANGED <<cRevisionId, cResolved>>
     ELSE /\ cRevisionId' = calls[c].val
          /\ cResolved' = [org |-> calls[c].org, draft |-> TRUE]
          /\ calls' = [calls EXCEPT ![c] =
               [Settled(calls[c].op, 0, "ok") EXCEPT !.req2 = calls[c].req2]]
  /\ UNCHANGED <<svars, ovars, hvars, owed, marked, cOrganizationId, cIsDraft,
                 organizationId>>

\* ---------------------------------------------------------------------------
\* Specifications
\* ---------------------------------------------------------------------------
\* fewer than MaxSiblings handles were created: the specifications below
\* create at most MaxSiblings handles, SpecThree up to MaxHandles
FewHandles == Cardinality(Constructed) < MaxSiblings

\* Handles of one BranchScope: factories, markStale, dispose, the owner's
\* broadcast, reads, table/row mutations, commit and refresh()
Next ==
  \/ FewHandles /\ Draft("o1")
  \/ FewHandles /\ Head("o1")
  \/ FewHandles /\ Revision("o1", ownerHead["o1"])
  \/ \E h \in Handles : MarkStale(h)
  \/ \E h \in Handles : Dispose(h)
  \/ \E k \in {BranchOf["o1"], OtherKey} :
       \E x \in Handles \cup {0} : NotifyBranchChanged("o1", k, x)
  \/ \E c \in Calls, h \in Handles : StartRead(c, h)
  \/ \E c \in Calls, h \in Handles : StartMutate(c, h)
  \/ \E c \in Calls, h \in Handles : StartCommit(c, h)
  \/ \E c \in Calls, h \in Handles : StartRefresh(c, h)
  \/ \E p \in Calls, ok \in BOOLEAN : ServeRefresh(p, ok)
  \/ \E c \in Calls, ok \in BOOLEAN : ServeFetch(c, ok)
  \/ \E c \in Calls, ok \in BOOLEAN : ServeOwnerHead(c, ok)
  \/ \E c \in Calls, ok \in BOOLEAN : ServeOwnerDraft(c, ok)
  \/ \E p \in Calls : RefreshSettles(p)
  \/ \E c \in Calls, ok \in BOOLEAN : RemoteSettles(c, ok)
  \/ \E c \in Calls, ok \in BOOLEAN : WriteSettles(c, ok)
  \/ \E c \in Calls : OwnerRefreshSettles(c)
  \/ \E c \in Calls : FetchDraftSettles(c)
  \/ \E c \in Calls : RefreshReturns(c)

Spec == Init /\ [][Next]_vars

\* The write operations of the handles of one BranchScope: commit,
\* revertChanges, applyMigrations / applyMigrationsWithStatus, and reads
NextWrites ==
  \/ FewHandles /\ Draft("o1")
  \/ FewHandles /\ Head("o1")
  \/ FewHandles /\ Revision("o1", ownerHead["o1"])
  \/ \E c \in Calls, h \in Handles : StartRead(c, h)
  \/ \E c \in Calls, h \in Handles : StartMigrate(c, h)
  \/ \E c \in Calls, h \in Handles : StartCommit(c, h)
  \/ \E c \in Calls, h \in Handles : StartRevert(c, h)
  \/ \E p \in Calls, ok \in BOOLEAN : ServeRefresh(p, ok)
  \/ \E c \in Calls, ok \in BOOLEAN : ServeFetch(c, ok)
  \/ \E c \in Calls, ok \in BOOLEAN : ServeOwnerHead(c, ok)
  \/ \E c \in Calls, ok \in BOOLEAN : ServeOwnerDraft(c, ok)
  \/ \E p \in Calls : RefreshSettles(p)
  \/ \E c \in Calls, ok \in BOOLEAN : RemoteSettles(c, ok)
  \/ \E c \in Calls, ok \in BOOLEAN : WriteSettles(c, ok)
  \/ \E c \in Calls : OwnerRefreshSettles(c)
  \/ \E c \in Calls : FetchDraftSettles(c)

SpecWrites == Init /\ [][NextWrites]_vars

\* Two BranchScope objects obtained by two branch() calls for one identity
NextTwo ==
  \/ FewHandles /\ \E o \in Owners : Draft(o)
  \/ FewHandles /\ \E o \in Owners : Head(o)
  \/ FewHandles /\ \E o \in Owners : Revision(o, ownerHead[o])
  \/ \E h \in Handles : Dispose(h)
  \/ \E c \in Calls, h \in Handles : StartRead(c, h)
  \/ \E c \in Calls, h \in Handles : StartCommit(c, h)
  \/ \E p \in Calls, ok \in BOOLEAN : ServeRefresh(p, ok)
  \/ \E c \in Calls, ok \in BOOLEAN : ServeFetch(c, ok)
  \/ \E c \in Calls, ok \in BOOLEAN : ServeOwnerHead(c, ok)
  \/ \E c \in Calls, ok \in BOOLEAN : ServeOwnerDraft(c, ok)
  \/ \E p \in Calls : RefreshSettles(p)
  \/ \E c \in Calls, ok \in BOOLEAN : RemoteSettles(c, ok)
  \/ \E c \in Calls, ok \in BOOLEAN : WriteSettles(c, ok)
  \/ \E c \in Calls : OwnerRefreshSettles(c)
  \/ \E c \in Calls : FetchDraftSettles(c)

SpecTwo == Init /\ [][NextTwo]_vars

\* Every public operation of the handles of one BranchScope
NextOps ==
  \/ FewHandles /\ Draft("o1")
  \/ FewHandles /\ Head("o1")
  \/ FewHandles /\ Revision("o1", ownerHead["o1"])
  \/ \E h \in Handles : MarkStale(h)
  \/ \E h \in Handles : Dispose(h)
  \/ \E c \in Calls, h \in Handles : StartRead(c, h)
  \/ \E c \in Calls, h \in Handles : StartMutate(c, h)
  \/ \E c \in Calls, h \in Handles : StartMigrate(c, h)
  \/ \E c \in Calls, h \in Handles : StartCommit(c, h)
  \/ \E c \in Calls, h \in Handles : StartRevert(c, h)
  \/ \E c \in Calls, h \in Handles : StartEndpoint(c, h)
  \/ \E c \in Calls, h \in Handles : StartRefresh(c, h)
  \/ \E p \in Calls, ok \in BOOLEAN : ServeRefresh(p, ok)
  \/ \E c \in Calls, ok \in BOOLEAN : ServeFetch(c, ok)
  \/ \E c \in Calls, ok \in BOOLEAN : ServeOwnerHead(c, ok)
  \/ \E c \in Calls, ok \in BOOLEAN : ServeOwnerDraft(c, ok)
  \/ \E p \in Calls : RefreshSettles(p)
  \/ \E c \in Calls, ok \in BOOLEAN : RemoteSettles(c, ok)
  \/ \E c \in Calls, ok \in BOOLEAN : WriteSettles(c, ok)
  \/ \E c \in Calls : OwnerRefreshSettles(c)
  \/ \E c \in Calls : FetchDraftSettles(c)
  \/ \E c \in Calls : RefreshReturns(c)

SpecOps == Init /\ [][NextOps]_vars

\* The owner's notifications, with markStale() reachable only through them
NextNotify ==
  \/ FewHandles /\ Draft("o1")
  \/ FewHandles /\ Head("o1")
  \/ FewHandles /\ Revision("o1", ownerHead["o1"])
  \/ \E h \in Handles : Dispose(h)
  \/ \E k \in {BranchOf["o1"], OtherKey} :
       \E x \in Handles \cup {0} : NotifyBranchChanged("o1", k, x)
  \/ \E c \in Calls, h \in Handles : StartRead(c, h)
  \/ \E p \in Calls, ok \in BOOLEAN : ServeRefresh(p, ok)
  \/ \E p \in Calls : RefreshSettles(p)
  \/ \E c \in Calls, ok \in BOOLEAN : RemoteSettles(c, ok)

SpecNotify == Init /\ [][NextNotify]_vars

\* Three sibling handles of one BranchScope: dispose and commit
NextThree ==
  \/ Draft("o1")
  \/ Head("o1")
  \/ \E h \in Handles : Dispose(h)
  \/ \E c \in Calls, h \in Handles : StartCommit(c, h)
  \/ \E c \in Calls, ok \in BOOLEAN : ServeFetch(c, ok)
  \/ \E c \in Calls, ok \in BOOLEAN : ServeOwnerHead(c, ok)
  \/ \E c \in Calls, ok \in BOOLEAN : ServeOwnerDraft(c, ok)
  \/ \E c \in Calls, ok \in BOOLEAN : WriteSettles(c, ok)
  \/ \E c \in Calls : OwnerRefreshSettles(c)
  \/ \E c \in Calls : FetchDraftSettles(c)

SpecThree == Init /\ [][NextThree]_vars

\* revision(id) of two BranchScope objects, with its validation request
NextRevision ==
  \/ Constructed = {} /\ Draft("o1")
  \/ \E c \in Calls, o \in Owners, id \in RevisionInputs : StartRevision(c, o, id)
  \/ \E c \in Calls, ok \in BOOLEAN : ValidateSettles(c, ok)
  \/ \E h \in Handles : Dispose(h)
  \/ \E c \in Calls, h \in Handles : StartRead(c, h)
  \/ \E c \in Calls, ok \in BOOLEAN : RemoteSettles(c, ok)

SpecRevision == Init /\ [][NextRevision]_vars

\* a BranchScope created for an identity whose organization id may be empty
InitContext == \E org \in OrganizationInputs : Created([o \in Owners |-> org])

\* The data operations of the handles of such a BranchScope
NextContext ==
  \/ FewHandles /\ Draft("o1")
  \/ FewHandles /\ Head("o1")
  \/ \E h \in Handles : MarkStale(h)
  \/ \E c \in Calls, h \in Handles : StartRead(c, h)
  \/ \E c \in Calls, h \in Handles : StartGetMigrations(c, h)
  \/ \E c \in Calls, h \in Handles : StartMutate(c, h)
  \/ \E c \in Calls, h \in Handles : StartMigrate(c, h)
  \/ \E c \in Calls, h \in Handles : StartCommit(c, h)
  \/ \E p \in Calls, ok \in BOOLEAN : ServeRefresh(p, ok)
  \/ \E c \in Calls, ok \in BOOLEAN : ServeFetch(c, ok)
  \/ \E c \in Calls, ok \in BOOLEAN : ServeOwnerHead(c, ok)
  \/ \E c \in Calls, ok \in BOOLEAN : ServeOwnerDraft(c, ok)
  \/ \E p \in Calls : RefreshSettles(p)
  \/ \E c \in Calls, ok \in BOOLEAN : RemoteSettles(c, ok)
  \/ \E c \in Calls, ok \in BOOLEAN : WriteSettles(c, ok)
  \/ \E c \in Calls : OwnerRefreshSettles(c)
  \/ \E c \in Calls : FetchDraftSettles(c)

SpecContext == InitContext /\ [][NextContext]_vars

\* Handles of one BranchScope whose every remote call succeeds: factories,
\* dispose, reads, refresh() and commit; the server's ids change only through
\* these commits
NextCoherent ==
  \/ FewHandles /\ Draft("o1")
  \/ FewHandles /\ Head("o1")
  \/ \E h \in Handles : Dispose(h)
  \/ \E c \in Calls, h \in Handles : StartRead(c, h)
  \/ \E c \in Calls, h \in Handles : StartCommit(c, h)
  \/ \E c \in Calls, h \in Handles : StartRefresh(c, h)
  \/ \E p \in Calls : ServeRefresh(p, TRUE)
  \/ \E c \in Calls : ServeFetch(c, TRUE)
  \/ \E c \in Calls : ServeOwnerHead(c, TRUE)
  \/ \E c \in Calls : ServeOwnerDraft(c, TRUE)
  \/ \E p \in Calls : RefreshSettles(p)
  \/ \E c \in Calls : RemoteSettles(c, TRUE)
  \/ \E c \in Calls : WriteSettles(c, TRUE)
  \/ \E c \in Calls : OwnerRefreshSettles(c)
  \/ \E c \in Calls : FetchDraftSettles(c)
  \/ \E c \in Calls : RefreshReturns(c)

SpecCoherent == Init /\ [][NextCoherent]_vars

\* Handles of one BranchScope under the event loop: every request is
\* eventually answered, with data or with an error, and every continuation
\* whose promise has settled is eventually run
NextLive ==
  \/ FewHandles /\ Draft("o1")
  \/ FewHandles /\ Head("o1")
  \/ \E h \in Handles : MarkStale(h)
  \/ \E h \in Handles : Dispose(h)
  \/ \E c \in Calls, h \in Handles : StartRead(c, h)
  \/ \E c \in Calls, h \in Handles : StartCommit(c, h)
  \/ \E p \in Calls, ok \in BOOLEAN : ServeRefresh(p, ok)
  \/ \E c \in Calls, ok \in BOOLEAN : ServeFetch(c, ok)
  \/ \E c \in Calls, ok \in BOOLEAN : ServeOwnerHead(c, ok)
  \/ \E c \in Calls, ok \in BOOLEAN : ServeOwnerDraft(c, ok)
  \/ \E p \in Calls : RefreshSettles(p)
  \/ \E c \in Calls, ok \in BOOLEAN : RemoteSettles(c, ok)
  \/ \E c \in Calls, ok \in BOOLEAN : WriteSettles(c, ok)
  \/ \E c \in Calls : OwnerRefreshSettles(c)
  \/ \E c \in Calls : FetchDraftSettles(c)

\* the steps that answer a request of chain c or run its continuation
Progress(c) ==
  \/ \E ok \in BOOLEAN : ServeRefresh(c, ok)
  \/ \E ok \in BOOLEAN : ServeFetch(c, ok)
  \/ \E ok \in BOOLEAN : ServeOwnerHead(c, ok)
  \/ \E ok \in BOOLEAN : ServeOwnerDraft(c, ok)
  \/ RefreshSettles(c)
  \/ \E ok \in BOOLEAN : RemoteSettles(c, ok)
  \/ \E ok \in BOOLEAN : WriteSettles(c, ok)
  \/ OwnerRefreshSettles(c)
  \/ FetchDraftSettles(c)

SpecLive ==
  Init /\ [][NextLive]_vars /\ \A c \in Calls : WF_vars(Progress(c))

\* One RevisiumClient: setContext and its data operations
NextClient ==
  \/ \E c \in Calls, org \in OrganizationInputs, revision \in {"draft", "head"} :
       SetContext(c, org, revision, 0)
  \/ \E c \in Calls, org \in OrganizationInputs, id \in RevisionInputs :
       SetContext(c, org, "explicit", id)
  \/ \E c \in Calls : ClientRead(c)
  \/ \E c \in Calls : ClientMutate(c)
  \/ \E c \in Calls : ClientCommit(c)
  \/ \E c \in Calls : ClientRevert(c)
  \/ \E c \in Calls, ok \in BOOLEAN : ClientServe(c, ok)
  \/ \E c \in Calls : ContextSettles(c)
  \/ \E c \in Calls : ClientRemoteSettles(c)
  \/ \E c \in Calls : ClientWriteSettles(c)
  \/ \E c \in Calls : RefreshDraftSettles(c)

SpecClient == Init /\ [][NextClient]_vars

\* ---------------------------------------------------------------------------
\* Properties
\* ---------------------------------------------------------------------------
\* the step in which the promise of the write operation `op` of chain c resolves
WriteResolves(c, op) ==
  /\ calls[c].op = op
  /\ calls[c].pc = "fetchDraft"
  /\ calls'[c].pc = "done"
  /\ calls'[c].res = "ok"

\* the step in which chain c calls a data operation (one that resolves the
\* revision id through getRevisionId)
DataOpStarts(c) ==
  /\ calls[c].pc = "idle"
  /\ calls'[c].op \in {"read", "mutate", "migrate"}

\* the chains whose getRevisionId fetch for handle h has not settled
FetchOwners(h) ==
  {c \in Calls : calls[c].h = h /\ calls[c].pc = "awaitRefresh" /\ calls[c].wait = c}

\* the step in which the promise created by chain p settles
RefreshSettled(p) ==
  /\ calls[p].pc = "awaitRefresh"
  /\ calls[p].wait = p
  /\ calls[p].req \in {"ok", "fail"}
  /\ calls'[p].pc # "awaitRefresh"

\* C1: for handles A (draft) and B (draft or head) of one BranchScope, B not
\* disposed: in the step in which A.commit() resolves successfully, B.isStale
\* becomes (or stays) true and A.isStale is false.
C1_CommitMarksSiblings ==
  [][\A c \in Calls : WriteResolves(c, "commit") =>
       LET a == calls[c].h
       IN /\ ~stale'[a]
          /\ \A b \in Handles \ {a} :
               (/\ mode[b] \in {"draft", "head"}
                /\ hOwner[b] = hOwner[a]
                /\ ~disposed[b]) => stale'[b]]_vars

\* a commit has resolved, its handle is fresh and a live sibling that the
\* commit's broadcast reached is stale
C1_Witness ==
  \E c \in Calls, b \in Handles :
    /\ calls[c].op = "commit" /\ calls[c].res = "ok"
    /\ b # calls[c].h
    /\ mode[b] \in {"draft", "head"} /\ ~disposed[b]
    /\ owed[b] >= 0 /\ stale[b]
    /\ ~stale[calls[c].h] /\ ~disposed[calls[c].h]

C3_RevertAndMigrateProtocol ==
  [][\A c \in Calls :
       (WriteResolves(c, "revert") \/ WriteResolves(c, "migrate")) =>
         LET a == calls[c].h
         IN /\ ~stale'[a]
            /\ calls[c].req = "ok"
            /\ revisionId'[a] = calls[c].val
            /\ \A b \in scopes[hOwner[a]] \ {a} :
                 mode[b] # "explicit" => stale'[b]]_vars

\* a revertChanges and an applyMigrations have both resolved, and a registered
\* sibling is stale
C3_Witness ==
  \E c, d \in Calls, b \in Handles :
    /\ calls[c].op = "revert" /\ calls[c].res = "ok"
    /\ calls[d].op = "migrate" /\ calls[d].res = "ok"
    /\ b \in scopes[hOwner[calls[c].h]] \ {calls[c].h, calls[d].h}
    /\ mode[b] # "explicit" /\ stale[b]
    /\ ~stale[calls[c].h]

\* C4: in the step in which A.commit() resolves successfully, A's revision id
\* becomes the id answered by the draft fetch that commit issued after its
\* remote operation, and that id differs from the id A had when commit was
\* called.
C4_CommitStoresFetchedDraft ==
  [][\A c \in Calls : WriteResolves(c, "commit") =>
       /\ calls[c].req = "ok"
       /\ revisionId'[calls[c].h] = calls[c].val
       /\ calls[c].val # calls[c].pre]_vars

\* a commit has resolved and its handle holds the new draft id
C4_Witness ==
  \E c \in Calls :
    /\ calls[c].op = "commit" /\ calls[c].res = "ok"
    /\ revisionId[calls[c].h] = calls[c].val
    /\ calls[c].val = srvDraft
    /\ calls[c].pre # srvDraft

\* C5: an explicit handle is never stale and its revision id never changes
\* after construction, whatever step is taken.
C5_ExplicitNeverStale ==
  [][\A h \in Handles : mode'[h] = "explicit" =>
       /\ ~stale'[h]
       /\ mode[h] = "explicit" => revisionId'[h] = revisionId[h]]_vars

\* a registered explicit handle whose id is no longer the head, after a
\* sibling's commit has resolved and a refresh() on it has returned
C5_Witness ==
  \E h \in Handles, c, d \in Calls :
    /\ mode[h] = "explicit" /\ h \in scopes[hOwner[h]]
    /\ ~stale[h] /\ revisionId[h] # srvHead
    /\ calls[c].op = "commit" /\ calls[c].res = "ok"
    /\ hOwner[calls[c].h] = hOwner[h]
    /\ calls[d].op = "refresh" /\ calls[d].h = h /\ calls[d].res = "ok"

\* C6: no chain working for an explicit handle is ever waiting for a
\* revision-id fetch, and a read on it is issued with the handle's own id.
C6_ExplicitNeverFetches ==
  \A c \in Calls :
    (calls[c].h # 0 /\ mode[calls[c].h] = "explicit") =>
      /\ calls[c].pc \notin {"awaitRefresh", "refreshing", "ownerRefresh",
                            "fetchDraft"}
      /\ calls[c].req = "none" /\ calls[c].req2 = "none"
      /\ (calls[c].pc = "remote" \/ calls[c].res = "ok") /\ calls[c].op = "read"
           => calls[c].rev = revisionId[calls[c].h]

\* a read on an explicit handle has completed with the construction id after
\* the head moved on
C6_Witness ==
  \E c \in Calls :
    /\ calls[c].op = "read" /\ calls[c].res = "ok"
    /\ mode[calls[c].h] = "explicit"
    /\ calls[c].rev = revisionId[calls[c].h]
    /\ calls[c].rev # srvHead

\* C7: a data operation that finds the handle stale starts a fetch only when
\* no refresh promise is stored and otherwise awaits the stored one; a handle
\* never has two unsettled getRevisionId fetches; and when the promise settles
\* every chain awaiting it continues with the fetched id or fails with the
\* fetch's error.
C7_OneFetchForConcurrentCallers ==
  [][/\ \A h \in Handles : Cardinality(FetchOwners(h)') <= 1
     /\ \A c \in Calls :
          (DataOpStarts(c) /\ calls'[c].pc = "awaitRefresh") =>
            LET h == calls'[c].h
            IN IF refreshPromise[h] # 0
               THEN /\ calls'[c].wait = refreshPromise[h]
                    /\ calls'[c].req = "none"
                    /\ refreshPromise'[h] = refreshPromise[h]
               ELSE /\ calls'[c].wait = c
                    /\ calls'[c].req = "sent"
                    /\ refreshPromise'[h] = c
     /\ \A p \in Calls : RefreshSettled(p) =>
          \A c \in Awaiters(p) :
            IF calls[p].req = "ok"
            THEN calls'[c].pc = "remote" /\ calls'[c].rev = calls[p].val
            ELSE calls'[c].res = "Transport"]_vars

\* two chains await the one refresh promise of a stale handle
C7_Witness ==
  \E c, d \in Calls :
    /\ c # d
    /\ calls[c].pc = "awaitRefresh" /\ calls[d].pc = "awaitRefresh"
    /\ calls[c].h = calls[d].h
    /\ calls[c].wait = c /\ calls[d].wait = c
    /\ refreshPromise[calls[c].h] = c

\* the revision-id fetches of handle h the server has not answered yet:
\* those of getRevisionId and those of refresh()
OutstandingFetches(h) ==
  {c \in Calls :
     /\ calls[c].h = h
     /\ calls[c].req = "sent"
     /\ \/ calls[c].pc = "awaitRefresh" /\ calls[c].wait = c
        \/ calls[c].pc = "refreshing"}

\* C8 as stated: each handle has at most one outstanding fetch of its
\* revision id, counting those of stale data operations and of refresh().
C8_AtMostOneOutstandingFetch ==
  \A h \in Handles : Cardinality(OutstandingFetches(h)) <= 1

\* C9: a data operation (one not refused for a non-draft handle) on a live
\* handle that a sibling's commit marked stale, with no refresh in flight,
\* starts exactly one fetch; when that fetch succeeds
\* the handle is not stale and holds the fetched id, which is the post-commit
\* id of its mode or a later one, and the operation is issued with it; the
\* completion of the operation leaves the handle as it is.
C9_StaleSiblingRefreshesOnce ==
  [][/\ \A c \in Calls, h \in Handles :
          (/\ DataOpStarts(c)
           /\ calls'[c].h = h
           /\ calls'[c].res = "none"
           /\ owed[h] >= 0
           /\ ~disposed[h]
           /\ refreshPromise[h] = 0) =>
             /\ FetchOwners(h) = {}
             /\ FetchOwners(h)' = {c}
             /\ calls'[c].req = "sent"
     /\ \A p \in Calls :
          (RefreshSettled(p) /\ calls[p].req = "ok" /\ owed[calls[p].h] >= 0) =>
            LET h == calls[p].h
            IN /\ ~stale'[h]
               /\ revisionId'[h] = calls[p].val
               /\ calls[p].val >= owed[h]
               /\ calls[p].val <= ServerId(FetchKind(h))
               /\ calls'[p].rev = calls[p].val
     /\ \A c \in Calls :
          (calls[c].pc = "remote" /\ calls'[c].pc = "done"
             /\ calls[c].op \in {"read", "mutate"}) =>
            UNCHANGED hvars]_vars

\* a read on a handle that a sibling's commit had marked stale has completed
\* with the post-commit id, and the handle holds it and is not stale
C9_Witness ==
  \E c, d \in Calls :
    /\ calls[c].op = "commit" /\ calls[c].res = "ok"
    /\ calls[d].op = "read" /\ calls[d].res = "ok"
    /\ calls[d].h # calls[c].h
    /\ hOwner[calls[d].h] = hOwner[calls[c].h]
    /\ calls[d].rev = ServerId(FetchKind(calls[d].h))
    /\ calls[d].rev # 0
    /\ revisionId[calls[d].h] = calls[d].rev
    /\ ~stale[calls[d].h]
    /\ c < d

\* C10: when the fetch of a stale-triggered refresh fails, the handle's stale
\* flag and revision id stay as they are, the stored promise is cleared, every
\* chain awaiting it fails with the fetch's error and no new fetch is started
\* by that step; a later data operation that finds the handle stale starts a
\* new fetch.
C10_FailedRefreshRetriesOnDemand ==
  [][/\ \A p \in Calls :
          (RefreshSettled(p) /\ calls[p].req = "fail") =>
            LET h == calls[p].h
            IN /\ stale'[h] = stale[h]
               /\ revisionId'[h] = revisionId[h]
               /\ refreshPromise[h] = p
               /\ refreshPromise'[h] = 0
               /\ FetchOwners(h)' = {}
               /\ \A c \in Awaiters(p) :
                    calls'[c].pc = "done" /\ calls'[c].res = "Transport"
     /\ \A c \in Calls :
          (/\ DataOpStarts(c)
           /\ calls'[c].pc = "awaitRefresh"
           /\ \E d \in Calls : /\ calls[d].res = "Transport"
                               /\ calls[d].wait # 0
                               /\ calls[d].h = calls'[c].h
           /\ refreshPromise[calls'[c].h] = 0) =>
             /\ calls'[c].wait = c
             /\ calls'[c].req = "sent"
             /\ refreshPromise'[calls'[c].h] = c]_vars

\* a refresh has failed, the handle is still stale, and the next data
\* operation has started a new fetch
C10_Witness ==
  \E c, d \in Calls :
    /\ calls[c].res = "Transport" /\ calls[c].wait = c
    /\ calls[d].pc = "awaitRefresh" /\ calls[d].wait = d /\ calls[d].req = "sent"
    /\ calls[d].h = calls[c].h
    /\ stale[calls[c].h]
    /\ refreshPromise[calls[c].h] = d

\* C11: a data operation that resolves the revision id of a live handle whose
\* stale flag is false is issued with the handle's current revision id, and
\* the step sends no revision-id fetch and stores no refresh promise.
C11_FreshResolvesWithoutFetch ==
  [][\A c \in Calls, h \in Handles :
       (/\ DataOpStarts(c)
        /\ calls'[c].h = h
        /\ calls'[c].res = "none"
        /\ ~disposed[h]
        /\ ~stale[h]) =>
          /\ calls'[c].pc = "remote"
          /\ calls'[c].rev = revisionId[h]
          /\ calls'[c].req = "none"
          /\ refreshPromise' = refreshPromise
          /\ OutstandingFetches(h)' = OutstandingFetches(h)
          /\ UNCHANGED <<revisionId, stale>>]_vars

\* a read on a live, non-stale draft handle is under way with the handle's id
\* and no fetch of that handle's id is outstanding
C11_Witness ==
  \E c \in Calls :
    /\ calls[c].op = "read" /\ calls[c].pc = "remote"
    /\ mode[calls[c].h] = "draft"
    /\ ~stale[calls[c].h] /\ ~disposed[calls[c].h]
    /\ calls[c].rev = revisionId[calls[c].h]
    /\ OutstandingFetches(calls[c].h) = {}
    /\ refreshPromise[calls[c].h] = 0

\* C12: dispose() is idempotent: applied to the state left by a dispose() it
\* changes nothing, and however many times dispose() was called on a handle
\* (at least once), the handle is disposed, no registry holds it and
\* owner.unregisterScope was invoked for it exactly once.
C12_DisposeIdempotent ==
  \A h \in Handles : mode[h] # "none" =>
    LET once == AfterDispose(h, DisposeState)
        twice == AfterDispose(h, once)
    IN /\ twice = once
       /\ once.disposed[h]
       /\ once.unregisters[h] = 1
       /\ \A o \in Owners : h \notin once.scopes[o]
       /\ disposed[h] = (disposeCalls[h] >= 1)
       /\ unregisters[h] = IF disposeCalls[h] >= 1 THEN 1 ELSE 0
       /\ disposeCalls[h] >= 1 => DisposeState = once

\* dispose() was called twice on a handle and unregisterScope ran once
C12_Witness ==
  \E h \in Handles :
    /\ disposeCalls[h] = 2
    /\ unregisters[h] = 1
    /\ disposed[h]
    /\ h \notin scopes[hOwner[h]]

\* the step in which chain c calls a public operation of a handle
CallStarts(c) == calls[c].pc = "idle" /\ calls'[c].pc # "idle"

\* C13: an operation (read, table/row mutation, commit, revertChanges,
\* applyMigrations, endpoint operation, refresh) called on a disposed handle
\* is rejected in the calling step: its promise is rejected, no request is
\* sent and nothing but the call's own record changes, whatever the handle's
\* mode and stale flag.
C13_DisposedRejectsEverything ==
  [][\A c \in Calls, h \in Handles :
       (CallStarts(c) /\ calls'[c].h = h /\ disposed[h]) =>
         /\ calls'[c].pc = "done"
         /\ calls'[c].res \in {"Disposed", "NotDraft"}
         /\ calls'[c].req = "none" /\ calls'[c].req2 = "none"
         /\ \A d \in Calls \ {c} : calls'[d] = calls[d]
         /\ UNCHANGED <<svars, ovars, hvars, owed>>]_vars

\* an endpoint operation and a table/row mutation were both rejected by a
\* disposed, stale draft handle
C13_Witness ==
  \E c, d \in Calls :
    /\ calls[c].op = "endpoint" /\ calls[c].res = "Disposed"
    /\ calls[d].op = "mutate" /\ calls[d].res = "Disposed"
    /\ calls[d].h = calls[c].h
    /\ mode[calls[c].h] = "draft"
    /\ stale[calls[c].h]

\* C14 as stated: a table/row mutation called on a disposed handle fails with
\* the Disposed error, whatever the handle's mode.
C14_DisposedBeforeNotDraft ==
  [][\A c \in Calls, h \in Handles :
       (/\ CallStarts(c)
        /\ calls'[c].h = h
        /\ calls'[c].op = "mutate"
        /\ disposed[h]) => calls'[c].res = "Disposed"]_vars

\* C15: a table/row mutation, applyMigrations, commit or revertChanges
\* called on a live handle that is not a draft (head or explicit) is rejected
\* with NotDraft in the calling step: no request is sent, the handle's
\* revision id and stale flag and every sibling's stale flag are unchanged.
C15_NonDraftRejectsMutations ==
  [][\A c \in Calls, h \in Handles :
       (/\ CallStarts(c)
        /\ calls'[c].h = h
        /\ calls'[c].op \in {"mutate", "migrate", "commit", "revert"}
        /\ ~disposed[h]
        /\ mode[h] \in {"head", "explicit"}) =>
          /\ calls'[c].pc = "done"
          /\ calls'[c].res = "NotDraft"
          /\ calls'[c].req = "none" /\ calls'[c].req2 = "none"
          /\ \A d \in Calls \ {c} : calls'[d] = calls[d]
          /\ UNCHANGED <<svars, ovars, hvars, owed>>]_vars

\* a commit on a live head handle and a table/row mutation on a live explicit
\* handle were both rejected with NotDraft
C15_Witness ==
  \E c, d \in Calls :
    /\ calls[c].op = "commit" /\ calls[c].res = "NotDraft"
    /\ mode[calls[c].h] = "head" /\ ~disposed[calls[c].h]
    /\ calls[d].op = "mutate" /\ calls[d].res = "NotDraft"
    /\ mode[calls[d].h] = "explicit" /\ ~disposed[calls[d].h]

\* the owners whose _scopes holds handle h
RegisteredWith(h) == {o \in Owners : h \in scopes[o]}

\* C16: a handle is in at most one owner's registry and only while it is not
\* disposed: a live handle created by draft(), head() or revision() is
\* registered with exactly the owner that created it, and no registry holds
\* a disposed handle.
C16_RegistryMembership ==
  \A h \in Handles :
    /\ Cardinality(RegisteredWith(h)) <= 1
    /\ RegisteredWith(h) # {} => mode[h] # "none" /\ ~disposed[h]
    /\ (mode[h] # "none" /\ ~disposed[h]) => RegisteredWith(h) = {hOwner[h]}
    /\ disposed[h] => RegisteredWith(h) = {}

\* an explicit handle is registered with the BranchScope that created it and
\* with no other, while a disposed handle of the other BranchScope is in no
\* registry
C16_Witness ==
  \E a, b \in Handles :
    /\ mode[a] = "explicit" /\ ~disposed[a]
    /\ RegisteredWith(a) = {hOwner[a]}
    /\ mode[b] # "none" /\ disposed[b]
    /\ hOwner[b] # hOwner[a]
    /\ RegisteredWith(b) = {}

\* C17: a step of notifyBranchChanged(key, excluded) with the owner's own key
\* sets the stale flag of exactly the registered non-explicit handles other
\* than the excluded one; the excluded handle, explicit handles and disposed
\* handles keep their flag, and no revision id, disposed flag, registry,
\* refresh promise or call changes.
C17_NotifyMarksExactlyRegistered ==
  [][\A x \in Handles \cup {0} :
       NotifyBranchChanged("o1", BranchOf["o1"], x) =>
         /\ \A h \in Handles :
              stale'[h] = IF h \in scopes["o1"] /\ h # x /\ mode[h] # "explicit"
                          THEN TRUE
                          ELSE stale[h]
         /\ \A h \in Handles :
              (h = x \/ mode[h] = "explicit" \/ disposed[h] \/ mode[h] = "none")
                => stale'[h] = stale[h]
         /\ revisionId' = revisionId
         /\ disposed' = disposed
         /\ UNCHANGED <<scopes, refreshPromise, calls, mode, ownerHead,
                        ownerDraft>>]_vars

\* before any call was made, a notification has marked a registered handle
\* stale and left alone the live handle created before it
C17_Witness ==
  \E a, b \in Handles :
    /\ b < a
    /\ mode[a] \in {"draft", "head"} /\ a \in scopes["o1"] /\ stale[a]
    /\ mode[b] \in {"draft", "head"} /\ b \in scopes["o1"] /\ ~stale[b]
    /\ \A c \in Calls : calls[c].pc = "idle"

\* C19: notifyBranchChanged with a key other than the owner's branch key
\* marks no handle: the stale flag of every handle is what it was.
C19_OtherKeyMarksNothing ==
  \A o \in Owners, x \in Handles \cup {0} :
    /\ NotifyTargets(o, OtherKey, x) = {}
    /\ Broadcast(stale, o, OtherKey, x) = stale

\* a registered live draft handle that a notification with the owner's own
\* key would mark is not marked by one with another key, while its sibling
\* was marked by an earlier notification
C19_Witness ==
  \E a, b \in Handles :
    /\ mode[a] = "draft" /\ a \in scopes["o1"] /\ ~stale[a]
    /\ Broadcast(stale, "o1", BranchOf["o1"], 0)[a]
    /\ ~Broadcast(stale, "o1", OtherKey, 0)[a]
    /\ b # a /\ stale[b]

\* C18: with a third handle A of the same BranchScope disposed at any earlier
\* point, the step in which B.commit() resolves successfully leaves B not
\* stale and every live draft/head sibling C stale; and the step that
\* disposes a handle removes only that handle from the registry and changes
\* no stale flag.
C18_DisposeKeepsPropagation ==
  [][/\ \A k \in Calls :
          (/\ WriteResolves(k, "commit")
           /\ \E a \in Handles \ {calls[k].h} : disposed[a]) =>
             /\ ~stale'[calls[k].h]
             /\ \A c \in Handles \ {calls[k].h} :
                  (mode[c] \in {"draft", "head"} /\ ~disposed[c]) => stale'[c]
     /\ \A a \in Handles :
          (~disposed[a] /\ disposed'[a]) =>
            /\ stale' = stale
            /\ scopes' = [scopes EXCEPT ![hOwner[a]] = @ \ {a}]]_vars

\* of three handles of one BranchScope, A is disposed, B's commit has
\* resolved and B is not stale, and the live sibling C was reached by the
\* commit's broadcast and is stale
C18_Witness ==
  \E a, b, c \in Handles, k \in Calls :
    /\ a # b /\ a # c /\ b # c
    /\ disposed[a]
    /\ calls[k].op = "commit" /\ calls[k].res = "ok" /\ calls[k].h = b
    /\ ~disposed[b] /\ ~stale[b]
    /\ mode[c] \in {"draft", "head"} /\ ~disposed[c]
    /\ owed[c] >= 0 /\ stale[c]

\* C20: the step in which a handle's own commit, revertChanges or
\* applyMigrations resolves successfully stores the fetched draft id and
\* leaves the handle not stale, whether or not it was stale before, and no
\* earlier step of that call sets the handle's stale flag.
C20_OwnWriteNeverLeavesStale ==
  [][\A c \in Calls :
       /\ (\E op \in {"commit", "revert", "migrate"} : WriteResolves(c, op)) =>
            /\ ~stale'[calls[c].h]
            /\ revisionId'[calls[c].h] = calls[c].val
       /\ (/\ calls'[c] # calls[c]
           /\ calls'[c].op \in {"commit", "revert", "migrate"}
           /\ ~stale[calls'[c].h]) => ~stale'[calls'[c].h]]_vars

\* a revertChanges called on a stale handle has resolved and the handle is
\* not stale and holds the fetched draft id
C20_Witness ==
  \E c \in Calls :
    /\ calls[c].op = "revert" /\ calls[c].res = "ok"
    /\ calls[c].was
    /\ ~stale[calls[c].h]
    /\ revisionId[calls[c].h] = calls[c].val
    /\ calls[c].val # calls[c].pre
\* C21 as stated: when a broadcast marked a handle stale while the handle's
\* refresh fetch was in flight, the handle is still stale after that refresh
\* has completed successfully.
C21_LateInvalidationKept ==
  [][\A p \in Calls :
       (RefreshSettled(p) /\ calls[p].req = "ok" /\ marked[calls[p].h]) =>
         stale'[calls[p].h]]_vars

\* the commits whose remote operation has resolved while the committing handle
\* has not yet stored the new draft id
CommitWindow == {c \in Calls : calls[c].op = "commit"
                                /\ calls[c].pc \in {"ownerRefresh", "fetchDraft"}}

\* C22 as stated: no step of a commit changes a stale flag before its remote
\* operation resolved, and while the committing handle has not yet stored the
\* post-commit id, no sibling is fresh holding the post-commit id of its mode.
C22_NoSiblingFreshFirst ==
  [][/\ \A c \in Calls :
          (calls'[c] # calls[c] /\ calls'[c].op = "commit"
             /\ calls'[c].pc \in {"write", "ownerRefresh"}) => stale' = stale
     /\ \A c \in CommitWindow', b \in Handles :
          (/\ b # calls'[c].h
           /\ mode'[b] \in {"draft", "head"}
           /\ hOwner'[b] = hOwner'[calls'[c].h]) =>
             ~(~stale'[b] /\ revisionId'[b] = ServerId(FetchKind(b))')]_vars

\* C22 amended: the only step of a commit that changes a stale flag is the one
\* in which it resolves, after its remote operation, the owner's re-fetch and
\* its own draft fetch were answered; in that step the committing handle
\* stores the fetched draft id, newer than the one it had, and is not stale.
\* (A sibling that refreshes on its own while the commit is still re-fetching
\* may hold the post-commit id first.)
C22_BroadcastAfterOwnUpdate ==
  [][\A c \in Calls :
       (calls'[c] # calls[c] /\ calls'[c].op = "commit") =>
         IF WriteResolves(c, "commit")
         THEN /\ calls[c].req = "ok"
              /\ revisionId'[calls[c].h] = calls[c].val
              /\ calls[c].val > calls[c].pre
              /\ ~stale'[calls[c].h]
         ELSE stale' = stale]_vars

\* a sibling refreshed on its own to the post-commit id while the commit was
\* re-fetching, and was marked stale afterwards by the commit's broadcast,
\* when the committing handle was holding the new draft id
C22_Witness ==
  \E c, d \in Calls :
    /\ calls[c].op = "commit" /\ calls[c].res = "ok"
    /\ calls[d].op = "refresh" /\ calls[d].res = "ok" /\ calls[d].h # calls[c].h
    /\ hOwner[calls[d].h] = hOwner[calls[c].h]
    /\ revisionId[calls[d].h] = ServerId(FetchKind(calls[d].h))
    /\ owed[calls[d].h] >= 0 /\ stale[calls[d].h]
    /\ revisionId[calls[c].h] = srvDraft /\ ~stale[calls[c].h]

\* C23 as stated: a dispose() of a handle whose refresh fetch is in flight
\* leaves the fetch and the chains awaiting it as they are, and every
\* operation called on the disposed handle while that fetch is unsettled is
\* rejected with Disposed in the calling step, before the outcome of the
\* fetch is known.
C23_DisposedDuringRefresh ==
  [][/\ \A h \in Handles :
          (~disposed[h] /\ disposed'[h] /\ refreshPromise[h] # 0) =>
            /\ calls' = calls
            /\ refreshPromise' = refreshPromise
     /\ \A c \in Calls, h \in Handles :
          (/\ CallStarts(c)
           /\ calls'[c].h = h
           /\ disposed[h]
           /\ refreshPromise[h] # 0) =>
             /\ calls'[c].pc = "done"
             /\ calls'[c].res = "Disposed"]_vars

\* C24 as stated: a disposed handle stays disposed, and no step changes the
\* stale flag or the revision id of a handle that is disposed.
C24_DisposedIsTerminal ==
  [][\A h \in Handles : disposed[h] =>
       /\ disposed'[h]
       /\ stale'[h] = stale[h]
       /\ revisionId'[h] = revisionId[h]]_vars

\* C25 as stated: whenever a remote operation is answered with a failure, the
\* call that invoked it is rejected with that failure by its next step, which
\* sends no further request; for the operations of the handles and of
\* RevisiumClient, revertChanges included.
C25_FailuresSurfaced ==
  [][/\ \A c \in Calls :
          (calls[c].req = "fail" /\ calls'[c] # calls[c]) =>
            /\ calls'[c].pc = "done"
            /\ calls'[c].res = "Transport"
            /\ calls'[c].req = "none"
     /\ \A c \in Calls :
          (\/ RemoteSettles(c, FALSE) \/ WriteSettles(c, FALSE)
           \/ ServeFetch(c, FALSE) \/ ServeOwnerHead(c, FALSE)
           \/ ServeOwnerDraft(c, FALSE)) =>
            /\ calls'[c].pc = "done"
            /\ calls'[c].res = "Transport"
            /\ calls'[c].req = "none"]_vars

\* C26: revision(id) creates no handle when it is called; when its promise
\* settles, either it resolves with a new explicit handle that holds id, is
\* not stale and is registered with the called BranchScope, and the server
\* knows id, or it rejects and no handle is created and no registry changes.
C26_RevisionValidatedFirst ==
  [][\A c \in Calls :
       /\ (calls[c].pc = "idle" /\ calls'[c].op = "revision") =>
            /\ calls'[c].pc = "validate"
            /\ mode' = mode /\ scopes' = scopes
       /\ (calls[c].pc = "validate" /\ calls'[c].pc # "validate") =>
            IF calls'[c].res = "ok"
            THEN LET h == calls'[c].h
                 IN /\ RevisionExists(calls[c].rev)
                    /\ h \in Handles /\ mode[h] = "none"
                    /\ mode' = [mode EXCEPT ![h] = "explicit"]
                    /\ revisionId'[h] = calls[c].rev
                    /\ ~stale'[h] /\ ~disposed'[h]
                    /\ scopes' = [scopes EXCEPT ![calls[c].own] = @ \cup {h}]
            ELSE /\ calls'[c].pc = "done"
                 /\ calls'[c].res = "Transport"
                 /\ calls'[c].h = 0
                 /\ mode' = mode /\ scopes' = scopes
                 /\ UNCHANGED hvars]_vars

\* revision(id) was rejected for an id the server does not know, leaving no
\* handle behind, and another revision(id) returned the only handle there is,
\* registered with the BranchScope it was called on
C26_Witness ==
  \E c, d \in Calls :
    /\ calls[c].op = "revision" /\ calls[c].res = "Transport"
    /\ ~RevisionExists(calls[c].rev)
    /\ calls[d].op = "revision" /\ calls[d].res = "ok"
    /\ Constructed = {calls[d].h}
    /\ mode[calls[d].h] = "explicit"
    /\ revisionId[calls[d].h] = calls[d].rev
    /\ RegisteredWith(calls[d].h) = {calls[d].own}

\* C27 as stated: in the step in which a commit of a handle resolves
\* successfully, the cached ids of the handle's BranchScope are ids fetched
\* after that commit: the head id is no older and the draft id is newer than
\* the id the handle had when commit was called, so that draft() and head()
\* hand out post-commit ids.
C27_OwnerIdsAfterWrite ==
  [][\A c \in Calls : WriteResolves(c, "commit") =>
       LET o == hOwner[calls[c].h]
       IN /\ ownerHead'[o] >= calls[c].pre
          /\ ownerDraft'[o] > calls[c].pre]_vars

\* C28: no step of a read changes the server, the owner's cached ids or
\* registry, or the revision id, stale flag, refresh promise, mode or disposed
\* flag of another handle; a read called on a live handle is accepted in
\* every mode; a read called on a handle that is not stale changes no field
\* of any handle, and the completion of its request changes none either.
C28_ReadFrame ==
  [][\A c \in Calls :
       (calls'[c] # calls[c] /\ calls'[c].op = "read") =>
         LET h == calls'[c].h
         IN /\ UNCHANGED <<svars, ovars, mode, isDraft, hOwner, disposed>>
            /\ \A b \in Handles \ {h} :
                 /\ revisionId'[b] = revisionId[b]
                 /\ stale'[b] = stale[b]
                 /\ refreshPromise'[b] = refreshPromise[b]
            /\ (CallStarts(c) /\ ~disposed[h]) => calls'[c].res = "none"
            /\ (CallStarts(c) /\ ~disposed[h] /\ ~stale[h]) =>
                 /\ calls'[c].pc = "remote"
                 /\ calls'[c].rev = revisionId[h]
            /\ (CallStarts(c) /\ ~stale[h]) => UNCHANGED hvars
            /\ calls[c].pc = "remote" =>
                 /\ calls'[c].pc = "done"
                 /\ UNCHANGED hvars]_vars

\* reads have completed on a head handle and on an explicit handle, both
\* live and not stale, each issued with the id its handle still holds
C28_Witness ==
  \E c, d \in Calls :
    /\ calls[c].op = "read" /\ calls[c].res = "ok"
    /\ calls[d].op = "read" /\ calls[d].res = "ok"
    /\ mode[calls[c].h] = "head" /\ mode[calls[d].h] = "explicit"
    /\ ~stale[calls[c].h] /\ ~disposed[calls[c].h] /\ ~disposed[calls[d].h]
    /\ calls[c].rev = revisionId[calls[c].h]
    /\ calls[d].rev = revisionId[calls[d].h]
    /\ scopes["o1"] = {calls[c].h, calls[d].h}

\* a setContext() of the client has resolved
ContextWasSet ==
  \E d \in Calls : calls[d].op = "setContext" /\ calls[d].res = "ok"

\* C29: a read, table/row mutation, commit or revertChanges of RevisiumClient
\* called while no setContext() has resolved is rejected with ContextNotSet in
\* the calling step; a mutation, commit or revertChanges called with a context
\* whose revision is not the draft is rejected with NotDraft; neither sends a
\* request nor changes the client or the server; any other call sends its
\* request with the client's revision id.
C29_ClientContextErrors ==
  [][\A c \in Calls :
       (calls[c].pc = "idle"
          /\ calls'[c].op \in {"cRead", "cMutate", "cCommit", "cRevert"}) =>
         IF ~ContextWasSet
         THEN /\ calls'[c] = Settled(calls'[c].op, 0, "ContextNotSet")
              /\ UNCHANGED <<svars, cvars>>
         ELSE IF ~cIsDraft /\ calls'[c].op # "cRead"
         THEN /\ calls'[c] = Settled(calls'[c].op, 0, "NotDraft")
              /\ UNCHANGED <<svars, cvars>>
         ELSE /\ calls'[c].pc \in {"cRemote", "cWrite"}
              /\ calls'[c].req = "sent"
              /\ calls'[c].rev = cRevisionId
              /\ cRevisionId # -1]_vars

\* a read was rejected with ContextNotSet before any context was set, then
\* setContext() resolved for a revision that is not the draft, where a commit
\* is refused with NotDraft
C29_Witness ==
  \E c, d \in Calls :
    /\ c < d
    /\ calls[c].op = "cRead" /\ calls[c].res = "ContextNotSet"
    /\ calls[d].op = "setContext" /\ calls[d].res = "ok"
    /\ cRevisionId # -1 /\ ~cIsDraft
    /\ ClientAssertDraft("cCommit").res = "NotDraft"
    /\ ClientAssertDraft("cCommit").req = "none"

\* C30: the fetch of a refresh, started by a stale data operation or by
\* refresh(), is answered with the server's draft id for a draft handle and
\* with its head id for a head handle; when the fetch succeeds the handle's
\* revision id becomes the answered id and its stale flag false; when the
\* fetch of refresh() fails the call is rejected and both stay as they are.
C30_RefreshByMode ==
  [][\A c \in Calls :
       /\ (ServeRefresh(c, TRUE)
             \/ (ServeFetch(c, TRUE) /\ calls[c].pc = "refreshing")) =>
            /\ mode[calls[c].h] \in {"draft", "head"}
            /\ calls'[c].val = IF mode[calls[c].h] = "draft" THEN srvDraft
                               ELSE srvHead
       /\ ((RefreshSettled(c) /\ calls[c].req = "ok") \/ RefreshReturns(c)) =>
            /\ revisionId'[calls[c].h] = calls[c].val
            /\ ~stale'[calls[c].h]
       /\ (ServeFetch(c, FALSE) /\ calls[c].pc = "refreshing") =>
            /\ calls'[c].res = "Transport"
            /\ revisionId' = revisionId
            /\ stale' = stale]_vars

\* after a sibling's commit, refresh() on a stale head handle has returned and
\* the handle holds the new head id, which is neither its old id nor the
\* draft id, and is not stale
C30_Witness ==
  \E c, d \in Calls :
    /\ calls[c].op = "commit" /\ calls[c].res = "ok"
    /\ calls[d].op = "refresh" /\ calls[d].res = "ok"
    /\ mode[calls[d].h] = "head"
    /\ revisionId[calls[d].h] = srvHead
    /\ srvHead # 0 /\ srvHead # srvDraft
    /\ ~stale[calls[d].h]
    /\ revisionId[calls[c].h] = srvDraft

\* C31: the step that constructs a handle gives it mode draft with isDraft
\* true and the owner's cached draft id, or mode head with isDraft false and
\* the owner's cached head id, or mode explicit with isDraft false, not stale
\* and not disposed; no step changes the mode or isDraft of a constructed
\* handle; so isDraft is true exactly for the draft handles.
C31_IsDraftIffDraftMode ==
  [][\A h \in Handles :
       /\ (mode[h] = "none" /\ mode'[h] # "none") =>
            LET o == hOwner'[h]
            IN /\ mode'[h] \in {"draft", "head", "explicit"}
               /\ mode'[h] = "draft" =>
                    isDraft'[h] /\ revisionId'[h] = ownerDraft[o]
               /\ mode'[h] = "head" =>
                    ~isDraft'[h] /\ revisionId'[h] = ownerHead[o]
               /\ mode'[h] = "explicit" => ~isDraft'[h]
               /\ ~stale'[h] /\ ~disposed'[h]
               /\ h \in scopes'[o]
       /\ mode[h] # "none" =>
            /\ mode'[h] = mode[h]
            /\ isDraft'[h] = isDraft[h]
            /\ isDraft[h] <=> mode[h] = "draft"]_vars

\* after a commit resolved, head() returned a handle that is not draft and
\* holds the new head id cached by the owner, next to the committing draft
\* handle, which is still a draft handle after its commit
C31_Witness ==
  \E c \in Calls, b \in Handles :
    /\ calls[c].op = "commit" /\ calls[c].res = "ok"
    /\ mode[calls[c].h] = "draft" /\ isDraft[calls[c].h]
    /\ mode[b] = "head" /\ ~isDraft[b]
    /\ revisionId[b] = ownerHead[hOwner[b]] /\ revisionId[b] = srvHead
    /\ srvHead # 0
    /\ ~stale[b]

\* C32: a handle's refresh promise is stored exactly while the fetch started
\* by a stale data operation of that handle has not settled, and it is the
\* promise of that fetch; the step that starts the fetch stores it, the step
\* in which the fetch settles, with an id or with an error, clears it; every
\* chain awaiting a refresh awaits the stored, unsettled promise.
C32_InFlightWhileFetching ==
  [][/\ \A h \in Handles :
          /\ refreshPromise[h] # 0 <=> FetchOwners(h) # {}
          /\ refreshPromise[h] # 0 => FetchOwners(h) = {refreshPromise[h]}
     /\ \A c \in Calls :
          /\ calls[c].pc = "awaitRefresh" =>
               /\ refreshPromise[calls[c].h] = calls[c].wait
               /\ calls[c].wait \in FetchOwners(calls[c].h)
          /\ (calls[c].pc = "idle" /\ calls'[c].pc = "awaitRefresh"
                 /\ calls'[c].wait = c) =>
               /\ refreshPromise[calls'[c].h] = 0
               /\ stale[calls'[c].h]
               /\ refreshPromise'[calls'[c].h] = c
          /\ RefreshSettled(c) =>
               /\ refreshPromise'[calls[c].h] = 0
               /\ \A d \in Calls : calls'[d].pc = "awaitRefresh" =>
                                      calls'[d].h # calls[c].h]_vars

\* the refresh promise two chains of a handle were awaiting was rejected: both
\* chains failed with its error, no promise is stored and no chain of the
\* handle awaits one
C32_Witness ==
  \E c, d \in Calls :
    /\ c # d
    /\ calls[c].res = "Transport" /\ calls[c].wait = c
    /\ calls[d].res = "Transport" /\ calls[d].wait = c
    /\ calls[d].h = calls[c].h
    /\ refreshPromise[calls[c].h] = 0
    /\ FetchOwners(calls[c].h) = {}

\* C33 as stated: a data operation (read, table/row mutation, commit,
\* applyMigrations) called on a live handle whose branch identity has an empty
\* organization id is rejected with ContextNotSet in the calling step, with
\* no request sent and no refresh started.
C33_EmptyOrganizationRejected ==
  [][\A c \in Calls :
       (/\ CallStarts(c)
        /\ AssertContextThrows(calls'[c].h)
        /\ ~disposed[calls'[c].h]) =>
          /\ calls'[c] = Settled(calls'[c].op, calls'[c].h, "ContextNotSet")
          /\ refreshPromise' = refreshPromise]_vars

\* no operation of any handle is in flight
Quiescent == \A c \in Calls : calls[c].pc \in {"idle", "done"}

\* C34 as stated: with every remote call succeeding and the server's ids
\* changed only by commits of handles of the one BranchScope, in every state
\* with no operation in flight each live draft (head) handle that is not
\* stale holds the server's current draft (head) id.
C34_CacheCoherence ==
  Quiescent =>
    \A h \in Handles :
      (mode[h] \in {"draft", "head"} /\ ~disposed[h] /\ ~stale[h]) =>
        revisionId[h] = ServerId(FetchKind(h))

\* C35 as stated: when the remote operation of a commit, revertChanges or
\* applyMigrations has succeeded, then in the step in which the call settles,
\* resolved or rejected because the owner's re-fetch or the draft fetch
\* failed, every other registered non-explicit handle of the owner is stale.
C35_BroadcastOnPartialFailure ==
  [][\A c \in Calls :
       (/\ calls[c].op \in {"commit", "revert", "migrate"}
        /\ calls[c].pc \in {"ownerRefresh", "fetchDraft"}
        /\ calls'[c].pc = "done") =>
          \A b \in scopes[hOwner[calls[c].h]] \ {calls[c].h} :
            mode[b] # "explicit" => stale'[b]]_vars

\* C36 as stated: a chain of a handle operation that is suspended when the
\* handle is disposed has no further effect: when it resumes it sends no
\* request of a data operation, and the chain of a commit, revertChanges or
\* applyMigrations neither stores an id or stale flag in the handle nor
\* marks a sibling stale.
C36_SuspendedStopsAfterDispose ==
  [][\A c \in Calls :
       (/\ calls[c].pc \notin {"idle", "done"}
        /\ calls[c].h \in Handles
        /\ disposed[calls[c].h]
        /\ calls'[c].pc # calls[c].pc) =>
          /\ calls'[c].pc # "remote"
          /\ calls[c].pc = "fetchDraft" =>
               /\ revisionId' = revisionId
               /\ stale' = stale]_vars

\* C37: no step of a table/row mutation re-fetches the owner's ids, changes
\* the owner's cached ids or registry, or turns a stale flag to true; the
\* chain never reaches the owner's re-fetch, the draft fetch or the
\* broadcast; a revision id changes in such a step only when the refresh
\* promise the chain awaits is fulfilled, and then only the id of the chain's
\* handle, which becomes the fetched id; the completion of the mutation's
\* request changes no handle.
C37_MutationsDoNotBroadcast ==
  [][\A c \in Calls :
       (calls'[c] # calls[c] /\ calls'[c].op = "mutate") =>
         LET h == calls'[c].h
         IN /\ UNCHANGED <<svars, ovars>>
            /\ \A b \in Handles : stale'[b] => stale[b]
            /\ calls'[c].pc \notin {"write", "ownerRefresh", "fetchDraft"}
            /\ owed' = owed \/ owed' = [owed EXCEPT ![h] = -1]
            /\ revisionId' # revisionId =>
                 /\ calls[c].pc = "awaitRefresh"
                 /\ RefreshSettled(calls[c].wait)
                 /\ calls[calls[c].wait].req = "ok"
                 /\ revisionId' = [revisionId EXCEPT ![h] = calls[calls[c].wait].val]
            /\ calls[c].pc = "remote" =>
                 /\ calls'[c].pc = "done"
                 /\ UNCHANGED hvars]_vars

\* a row mutation has resolved on a draft handle, issued with the id the
\* handle holds, while the registered head sibling is not stale and the
\* owner still caches the ids it was created with
C37_Witness ==
  \E c \in Calls, b \in Handles :
    /\ calls[c].op = "mutate" /\ calls[c].res = "ok"
    /\ mode[calls[c].h] = "draft" /\ calls[c].rev = revisionId[calls[c].h]
    /\ b # calls[c].h /\ mode[b] = "head"
    /\ b \in scopes[hOwner[calls[c].h]]
    /\ ~stale[b] /\ ~stale[calls[c].h]
    /\ ownerHead[hOwner[b]] = 0 /\ ownerDraft[hOwner[b]] = 1

\* no setContext() and no commit / revertChanges of the client is in flight
ClientSettled ==
  \A c \in Calls :
    calls[c].op \in {"setContext", "cCommit", "cRevert"} => calls[c].pc = "done"

\* C38 as stated: whenever the client's revision id is non-null (and no call
\* that sets the context or the revision id is in flight), the revision id
\* was resolved for the organization, project and branch the client currently
\* holds, and isDraft is true exactly when it was resolved as the draft.
C38_ContextConsistent ==
  (cRevisionId # -1 /\ ClientSettled) =>
    /\ cResolved.org = cOrganizationId
    /\ cIsDraft = cResolved.draft

\* C39: with every request eventually answered, every call of a handle
\* operation that is suspended eventually settles, resolved or rejected, and
\* a stored refresh promise is eventually cleared.
C39_EveryCallSettles ==
  /\ \A c \in Calls :
       (calls[c].pc \notin {"idle", "done"}) ~> (calls[c].pc = "done")
  /\ \A h \in Handles : (refreshPromise[h] # 0) ~> (refreshPromise[h] = 0)

\* after a commit resolved, a read on the stale head sibling awaited the
\* refresh, was issued with the fetched head id and has resolved; no refresh
\* promise is stored and no chain is suspended
C39_Witness ==
  \E c, d \in Calls :
    /\ calls[c].op = "commit" /\ calls[c].res = "ok"
    /\ calls[d].op = "read" /\ calls[d].res = "ok"
    /\ mode[calls[d].h] = "head" /\ calls[d].h # calls[c].h
    /\ calls[d].rev = srvHead /\ srvHead # 0
    /\ refreshPromise = [h \in Handles |-> 0]
    /\ Quiescent
====
